---- MODULE Spec2Model ----
(***************************************************************************)
(* A model of the graph-flow workflow engine (src/graph-flow/src): the     *)
(* Context (key/value data plus bounded chat history), the Graph with its  *)
(* ordered edge list, the single-step engine execute_session, the Session  *)
(* and its in-memory storage, and FlowRunner::run.                          *)
(*                                                                         *)
(* Several specifications share the variables below:                       *)
(*   SpecCtx   one Context under its own operations and a serialization    *)
(*             round trip;                                                 *)
(*   SpecEdge  Graph::find_next_task on bounded edge lists and contexts;   *)
(*   Spec      a host that creates a session, writes input, reloads the    *)
(*             session from its serialized form and steps it through       *)
(*             FlowRunner::run / Graph::execute_session;                   *)
(*   SpecKV    typed writes and reads of the Context's data map;           *)
(*   SpecStore the SessionStorage operations on their own;                 *)
(*   SpecBuild GraphBuilder calls up to build();                           *)
(*   SpecPar   concurrent FlowRunner::run calls on shared state;           *)
(*   SpecSer   Serialize for Context beside concurrent writers;            *)
(*   SpecExec  Graph::execute;                                             *)
(*   SpecRec   the recommendation service's graph and handler loop;        *)
(*   SpecLoop  execute_session on graphs of tasks with fixed actions.      *)
(***************************************************************************)
EXTENDS Integers, Sequences, FiniteSets, TLC

VARIABLES
    ctx,        \* SpecCtx/SpecEdge: the Context under test
    clock,      \* SpecCtx: Utc::now() as a counter
    added,      \* SpecCtx (history): messages added since the history was last empty
    wire,       \* SpecCtx: the serialized Context, or Null
    snap,       \* SpecCtx (history): the Context as it was when `wire` was produced
    restored,   \* SpecCtx: the Context deserialized from `wire`, or Null
    graph,      \* the Graph: tasks, edges, start_task_id
    found,      \* SpecEdge: the last two find_next_task calls
    heap,       \* Spec: the shared state behind every Context handle (Arc)
    store,      \* Spec: InMemorySessionStorage.sessions
    session,    \* Spec: FlowRunner::run's local `session`
    pc,         \* Spec: where FlowRunner::run is
    outcome,    \* Spec: what execute_session and FlowRunner::run returned, and
                \* (history) the response of the last task that ran
    runs,       \* Spec (history): the task runs of the current run call
    entry,      \* Spec (history): the session as loaded at the start of the call
    reload,     \* Spec (history): the session before and after the last reload
    hist,       \* SpecKV, SpecStore, SpecBuild (history): what the calls so far
                \* should have left behind
    got,        \* SpecKV, SpecStore: what the last read returned; SpecPar: per
                \* call, the key of the task-registry entry it holds a guard on
    prev        \* Spec (history), until the next call runs its first task: the
                \* task and action that ended the last saved call when it left
                \* the session in place, and what the host wrote since

vars == <<ctx, clock, added, wire, snap, restored, graph, found,
          heap, store, session, pc, outcome, runs, entry, reload, hist, got, prev>>

ctxVars == <<ctx, clock, added, wire, snap, restored>>
engVars == <<heap, store, session, pc, outcome, runs, entry, reload, prev>>
auxVars == <<hist, got>>

----------------------------------------------------------------------------
(* Bounds of the model. *)

\* largest chat-history bound given to with_max_chat_messages
MaxBound == 2
\* number of add_*_message calls in one behaviour of SpecCtx
MaxAdds == 3
\* longest edge list of SpecEdge
MaxEdges == 3
\* longest edge list of the graphs of Spec
MaxGraphEdges == 1
\* task runs followed inside one execute_session call
MaxChain == 2
\* Context handles alive at once
MaxRefs == 2
\* FlowRunner::run calls made by each request handler of SpecPar
MaxCalls == 1

\* ChatHistory::new(): the default limit
DefaultMaxMessages == 1000

----------------------------------------------------------------------------
(* Values. *)

\* a value that is not there (a record, so that it compares with records)
Null == [null |-> TRUE]
\* Option::None of a map lookup
Absent == "absent"
\* ChatHistory.max_messages == None
NoLimit == -1

\* registered task ids, and one id that names no task
Tasks == {"A", "B"}
Ghost == "X"
TaskIds == Tasks \cup {Ghost}

\* context keys: the host's input and one tag per task
InputKey == "input"
\* the key and the current_task_id a host writes when a workflow completed
CompletedKey == "workflow_completed"
CompletedMark == "completed"
Keys == {InputKey, CompletedKey} \cup Tasks
\* the keys the hosts and tasks of SpecCtx and SpecEdge write
CtxKeys == {InputKey} \cup Tasks
Vals == {"v1", "v2"}
\* the tag a task writes under its own id
Tags == {"v1"}
\* what the host writes under InputKey in Spec
Inputs == {"v2"}

MessageRole == {"User", "Assistant", "System"}
Contents == {"m1", "m2"}

----------------------------------------------------------------------------
(* context.rs: ChatHistory *)

SerializableMessage_new(role, content, now) ==
    [role |-> role, content |-> content, timestamp |-> now]

ChatHistory_new == [messages |-> <<>>, max_messages |-> DefaultMaxMessages]

ChatHistory_with_max_messages(max) == [messages |-> <<>>, max_messages |-> max]

\* a push that never evicts
add_message_unbounded(h, m) == [h EXCEPT !.messages = Append(h.messages, m)]

\* at the bound, the newest message is dropped instead of the oldest
add_message_keep_oldest(h, m) ==
    LET pushed == Append(h.messages, m)
    IN  IF h.max_messages # NoLimit /\ Len(pushed) > h.max_messages
        THEN [h EXCEPT !.messages = SubSeq(pushed, 1, h.max_messages)]
        ELSE [h EXCEPT !.messages = pushed]

\* push, then drain(0..len - max) when len > max
add_message(h, m) ==
    LET pushed == Append(h.messages, m)
    IN  IF h.max_messages # NoLimit /\ Len(pushed) > h.max_messages
        THEN [h EXCEPT !.messages =
                 SubSeq(pushed, Len(pushed) - h.max_messages + 1, Len(pushed))]
        ELSE [h EXCEPT !.messages = pushed]

ChatHistory_clear(h) == [h EXCEPT !.messages = <<>>]

\* a read that hands out the oldest n messages instead of the newest
last_messages_oldest(h, n) ==
    SubSeq(h.messages, 1, IF Len(h.messages) > n THEN n ELSE Len(h.messages))

\* start = if len > n { len - n } else { 0 }; &messages[start..]
last_messages(h, n) ==
    LET start == IF Len(h.messages) > n THEN Len(h.messages) - n ELSE 0
    IN  SubSeq(h.messages, start + 1, Len(h.messages))

----------------------------------------------------------------------------
(* context.rs: Context.  `data` is the DashMap, a function that is Absent  *)
(* on the keys it does not hold.                                           *)

EmptyData == [k \in Keys |-> Absent]

Context_new == [data |-> EmptyData, chat_history |-> ChatHistory_new]

Context_with_max_chat_messages(max) ==
    [data |-> EmptyData, chat_history |-> ChatHistory_with_max_messages(max)]

Context_set(c, k, v) == [c EXCEPT !.data[k] = v]

Context_get(c, k) == c.data[k]

Context_remove(c, k) == [c EXCEPT !.data[k] = Absent]

\* a clear that empties the chat history with the data
Context_clear_all(c) ==
    [c EXCEPT !.data = EmptyData, !.chat_history.messages = <<>>]

\* self.data.clear()
Context_clear(c) == [c EXCEPT !.data = EmptyData]

Context_add_message(c, role, content, now) ==
    [c EXCEPT !.chat_history =
        add_message(c.chat_history, SerializableMessage_new(role, content, now))]

Context_clear_chat_history(c) ==
    [c EXCEPT !.chat_history = ChatHistory_clear(c.chat_history)]

chat_history_len(c) == Len(c.chat_history.messages)

get_all_messages(c) == c.chat_history.messages

get_last_messages(c, n) == last_messages(c.chat_history, n)

----------------------------------------------------------------------------
(* context.rs: Serialize / Deserialize for Context, through ContextData.   *)
(* The serialized form is a JSON object: `data` is the set of key/value    *)
(* members collected from the map, `chat_history` the derived form of      *)
(* ChatHistory, whose max_messages is a number or JSON null.               *)

JsonOfBound(b) == IF b = NoLimit THEN Null ELSE [number |-> b]

BoundOfJson(j) == IF j = Null THEN NoLimit ELSE j.number

JsonOfHistory(h) ==
    [messages |-> h.messages, max_messages |-> JsonOfBound(h.max_messages)]

HistoryOfJson(j) ==
    [messages |-> j.messages, max_messages |-> BoundOfJson(j.max_messages)]

\* a serializer that writes the data and leaves the history at its default
Context_serialize_data_only(c) ==
    [data |-> {<<k, c.data[k]>> : k \in {x \in Keys : c.data[x] # Absent}},
     chat_history |-> JsonOfHistory(ChatHistory_new)]

Context_serialize(c) ==
    [data |-> {<<k, c.data[k]>> : k \in {x \in Keys : c.data[x] # Absent}},
     chat_history |-> JsonOfHistory(c.chat_history)]

Context_deserialize(j) ==
    [data |-> [k \in Keys |->
                 IF \E p \in j.data : p[1] = k
                 THEN (CHOOSE p \in j.data : p[1] = k)[2]
                 ELSE Absent],
     chat_history |-> HistoryOfJson(j.chat_history)]

----------------------------------------------------------------------------
(* graph.rs: Edge and Graph::find_next_task.  A condition is a closure     *)
(* over the Context; the model's conditions are the closures               *)
(* |c| c.get_sync(key) == Some(val).                                       *)

\* Edge.condition == None
NoCondition == [key |-> "none", val |-> "none"]

Condition(key, val) == [key |-> key, val |-> val]

EvalCondition(cond, c) == Context_get(c, cond.key) = cond.val

Edge(from, to, condition) == [from |-> from, to |-> to, condition |-> condition]

\* the scan of `for edge in edges.iter()`, from position i on
RECURSIVE ScanEdges(_, _, _, _)
ScanEdges(edges, i, current_task_id, c) ==
    IF i > Len(edges) THEN Absent
    ELSE LET edge == edges[i]
         IN  IF edge.from = current_task_id
             THEN IF edge.condition # NoCondition
                  THEN IF EvalCondition(edge.condition, c)
                       THEN edge.to
                       ELSE ScanEdges(edges, i + 1, current_task_id, c)
                  ELSE edge.to
             ELSE ScanEdges(edges, i + 1, current_task_id, c)

\* the scan restricted to conditional (TRUE) or unconditional (FALSE) edges
RECURSIVE ScanKind(_, _, _, _, _)
ScanKind(edges, i, current_task_id, c, conditional) ==
    IF i > Len(edges) THEN Absent
    ELSE LET edge == edges[i]
             mine == edge.from = current_task_id
                     /\ ((edge.condition # NoCondition) = conditional)
             fires == edge.condition = NoCondition \/ EvalCondition(edge.condition, c)
         IN  IF mine /\ fires THEN edge.to
             ELSE ScanKind(edges, i + 1, current_task_id, c, conditional)

\* two passes: every conditional edge is tried before any unconditional one
find_next_task_conditional_first(edges, current_task_id, c) ==
    LET first == ScanKind(edges, 1, current_task_id, c, TRUE)
    IN  IF first # Absent THEN first
        ELSE ScanKind(edges, 1, current_task_id, c, FALSE)

find_next_task(edges, current_task_id, c) == ScanEdges(edges, 1, current_task_id, c)

----------------------------------------------------------------------------
(* SpecCtx: one Context, created by Context::new or                        *)
(* Context::with_max_chat_messages, under its own operations.              *)

\* the engine's variables, unused by SpecCtx and SpecEdge
EngineIdle ==
    /\ heap = <<>>
    /\ store = Null
    /\ session = Null
    /\ pc = "idle"
    /\ outcome = Null
    /\ runs = <<>>
    /\ entry = Null
    /\ reload = Null
    /\ prev = Null
    /\ hist = Null
    /\ got = Null

EmptyGraph == [tasks |-> {}, edges |-> <<>>, start_task_id |-> Absent]

InitCtx ==
    /\ ctx \in {Context_new} \cup {Context_with_max_chat_messages(n) : n \in 0..MaxBound}
    /\ clock = 0
    /\ added = <<>>
    /\ wire = Null
    /\ snap = Null
    /\ restored = Null
    /\ graph = EmptyGraph
    /\ found = Null
    /\ EngineIdle

\* a mutation of the Context ends the round trip under observation
ForgetRoundTrip == wire' = Null /\ snap' = Null /\ restored' = Null

CtxSet ==
    \E k \in CtxKeys, v \in Vals :
        /\ ctx' = Context_set(ctx, k, v)
        /\ ForgetRoundTrip
        /\ UNCHANGED <<clock, added, graph, found, engVars, auxVars>>

CtxRemove ==
    \E k \in CtxKeys :
        /\ ctx' = Context_remove(ctx, k)
        /\ ForgetRoundTrip
        /\ UNCHANGED <<clock, added, graph, found, engVars, auxVars>>

CtxClear ==
    /\ ctx' = Context_clear(ctx)
    /\ ForgetRoundTrip
    /\ UNCHANGED <<clock, added, graph, found, engVars, auxVars>>

\* add_user_message / add_assistant_message / add_system_message; the
\* timestamp is Utc::now(), read from `clock`
AddMessage(role) ==
    \E content \in Contents :
        /\ clock < MaxAdds
        /\ ctx' = Context_add_message(ctx, role, content, clock)
        /\ clock' = clock + 1
        /\ added' = Append(added, SerializableMessage_new(role, content, clock))
        /\ ForgetRoundTrip
        /\ UNCHANGED <<graph, found, engVars, auxVars>>

AddUserMessage == AddMessage("User")

AddAssistantMessage == AddMessage("Assistant")

AddSystemMessage == AddMessage("System")

ClearChatHistory ==
    /\ ctx' = Context_clear_chat_history(ctx)
    /\ added' = <<>>
    /\ ForgetRoundTrip
    /\ UNCHANGED <<clock, graph, found, engVars, auxVars>>

SerializeCtx ==
    /\ wire = Null
    /\ wire' = Context_serialize(ctx)
    /\ snap' = ctx
    /\ restored' = Null
    /\ UNCHANGED <<ctx, clock, added, graph, found, engVars, auxVars>>

DeserializeCtx ==
    /\ wire # Null
    /\ restored = Null
    /\ restored' = Context_deserialize(wire)
    /\ UNCHANGED <<ctx, clock, added, wire, snap, graph, found, engVars, auxVars>>

NextCtx ==
    \/ CtxSet
    \/ CtxRemove
    \/ CtxClear
    \/ AddUserMessage
    \/ AddAssistantMessage
    \/ AddSystemMessage
    \/ ClearChatHistory
    \/ SerializeCtx
    \/ DeserializeCtx

SpecCtx == InitCtx /\ [][NextCtx]_vars

----------------------------------------------------------------------------
(* Claims about the Context. *)

Min(a, b) == IF a <= b THEN a ELSE b

\* the last n elements of seq, in order
LastN(seq, n) == [i \in 1..n |-> seq[Len(seq) - n + i]]

PresentKeys(c) == {k \in Keys : c.data[k] # Absent}

\* C5: a Context with a configured chat-history bound N never holds more
\* than N messages, whatever add_*_message / clear_chat_history calls ran.
C5_HistoryWithinBound ==
    ctx.chat_history.max_messages # NoLimit
        => chat_history_len(ctx) <= ctx.chat_history.max_messages

\* more messages were added than the bound admits, and the history is full
C5_Witness ==
    /\ ctx.chat_history.max_messages >= 1
    /\ Len(added) > ctx.chat_history.max_messages
    /\ chat_history_len(ctx) = ctx.chat_history.max_messages

\* C6: after k messages were added to an empty history with bound N,
\* get_all_messages is the last min(k, N) of them, in insertion order.
C6_EvictsOldest ==
    ctx.chat_history.max_messages # NoLimit
        => get_all_messages(ctx) =
             LastN(added, Min(Len(added), ctx.chat_history.max_messages))

\* the (N+1)-th message was added to a history of N >= 1 messages
C6_Witness ==
    /\ ctx.chat_history.max_messages >= 1
    /\ Len(added) = ctx.chat_history.max_messages + 1
    /\ get_all_messages(ctx) # <<>>
    /\ get_all_messages(ctx)[1] = added[2]

\* C7: deserialize(serialize(C)) has the data keys and values of C, its
\* messages (role, content, timestamp) in order, and its history bound.
C7_ContextRoundTrip ==
    restored # Null =>
        /\ PresentKeys(restored) = PresentKeys(snap)
        /\ \A k \in Keys : Context_get(restored, k) = Context_get(snap, k)
        /\ get_all_messages(restored) = get_all_messages(snap)
        /\ restored.chat_history.max_messages = snap.chat_history.max_messages

\* a Context with data and two messages went through the round trip
C7_Witness ==
    /\ restored # Null
    /\ PresentKeys(snap) # {}
    /\ Len(get_all_messages(snap)) >= 2
    /\ snap.chat_history.max_messages # DefaultMaxMessages

\* the counts a caller may ask get_last_messages for: below, at and above
\* the length of any history of the model
Counts == 0..(MaxAdds + 1)

\* C31: get_last_messages(n) returns the last min(n, len) messages of the
\* chat history in their insertion order, for every n >= 0: the empty list
\* for n = 0, the whole history for n >= len; the read leaves the Context
\* as it is.
C31_LastMessages ==
    \A n \in Counts :
        LET all == get_all_messages(ctx)
            res == get_last_messages(ctx, n)
        IN  /\ Len(res) = Min(n, Len(all))
            /\ res = LastN(all, Min(n, Len(all)))
            /\ n = 0 => res = <<>>
            /\ n >= Len(all) => res = all
            /\ \A i \in 1..Len(res) : res[i] = all[Len(all) - Len(res) + i]

\* three messages are held and asking for two returns the second and the
\* third of them, in that order
C31_Witness ==
    /\ chat_history_len(ctx) = 3
    /\ get_last_messages(ctx, 2) = <<added[2], added[3]>>
    /\ get_last_messages(ctx, 2) # SubSeq(get_all_messages(ctx), 1, 2)
    /\ get_last_messages(ctx, 0) = <<>>
    /\ get_last_messages(ctx, 4) = added

----------------------------------------------------------------------------
(* SpecEdge: Graph::find_next_task on every edge list of at most MaxEdges  *)
(* edges, against a Context whose input key the host sets and removes.     *)

SeqsUpTo(S, n) == UNION {[1..m -> S] : m \in 0..n}

Conditions == {NoCondition} \cup {Condition(InputKey, v) : v \in Vals}

EdgesOver(tos, conds) ==
    {Edge(f, t, c) : f \in Tasks, t \in tos, c \in conds}

InitEdge ==
    /\ ctx = Context_new
    /\ clock = 0
    /\ added = <<>>
    /\ wire = Null
    /\ snap = Null
    /\ restored = Null
    /\ \E es \in SeqsUpTo(EdgesOver(Tasks, Conditions), MaxEdges) :
          graph = [tasks |-> Tasks, edges |-> es, start_task_id |-> "A"]
    /\ found = Null
    /\ EngineIdle

EdgeCtxSet ==
    \E v \in Vals :
        /\ ctx' = Context_set(ctx, InputKey, v)
        /\ UNCHANGED <<clock, added, wire, snap, restored, graph, found, engVars, auxVars>>

EdgeCtxRemove ==
    /\ ctx' = Context_remove(ctx, InputKey)
    /\ UNCHANGED <<clock, added, wire, snap, restored, graph, found, engVars, auxVars>>

\* a find_next_task that takes the matched edge out of the list
FindNextCallConsuming ==
    \E cur \in Tasks :
        LET res == find_next_task(graph.edges, cur, ctx)
            hit == {i \in 1..Len(graph.edges) :
                      graph.edges[i].from = cur /\ graph.edges[i].to = res}
            first == CHOOSE i \in hit : \A j \in hit : i <= j
        IN  /\ found' = [cur |-> cur, res |-> res, seen |-> ctx]
            /\ graph' = IF hit = {} THEN graph
                        ELSE [graph EXCEPT !.edges =
                                SubSeq(graph.edges, 1, first - 1)
                                \o SubSeq(graph.edges, first + 1, Len(graph.edges))]
            /\ UNCHANGED <<ctxVars, engVars, auxVars>>

\* a call of Graph::find_next_task(cur, &ctx): it locks and reads the edge
\* list and calls conditions on the Context; `found` keeps what it returned
FindNextCall ==
    \E cur \in Tasks :
        /\ found' = [cur |-> cur,
                     res |-> find_next_task(graph.edges, cur, ctx),
                     seen |-> ctx]
        /\ UNCHANGED <<ctxVars, auxVars, graph, engVars, auxVars>>

NextEdge ==
    \/ EdgeCtxSet
    \/ EdgeCtxRemove
    \/ FindNextCall

SpecEdge == InitEdge /\ [][NextEdge]_vars

----------------------------------------------------------------------------
(* Claims about edge resolution. *)

\* edge i leaves `cur` and is unconditional or has a condition true on c
Matches(edges, i, cur, c) ==
    /\ edges[i].from = cur
    /\ \/ edges[i].condition = NoCondition
       \/ c.data[edges[i].condition.key] = edges[i].condition.val

MatchingEdges(edges, cur, c) == {i \in 1..Len(edges) : Matches(edges, i, cur, c)}

\* the `to` of the matching edge of least index, Absent when none matches
FirstMatch(edges, cur, c) ==
    IF MatchingEdges(edges, cur, c) = {} THEN Absent
    ELSE edges[CHOOSE i \in MatchingEdges(edges, cur, c) :
                  \A j \in MatchingEdges(edges, cur, c) : i <= j].to

----------------------------------------------------------------------------
(* task.rs: Task, TaskResult, NextAction.  A task is any implementation of *)
(* Task::run; what one run does is drawn from Behaviours: it may write its *)
(* tag (key = its id) to the Context, answer with a response built from    *)
(* the input it read, set a status message, pick any NextAction, or fail.  *)

NextAction(kind, target) == [kind |-> kind, target |-> target]

NextActions ==
    {NextAction(k, "") : k \in {"Continue", "ContinueAndExecute", "GoBack",
                                "End", "WaitForInput"}}
    \cup {NextAction("GoTo", t) : t \in TaskIds}

Behaviours ==
    [action : NextActions, write : {Absent} \cup Tags,
     responds : BOOLEAN, status : BOOLEAN, fails : {FALSE}]
    \cup [action : {NextAction("End", "")}, write : {Absent} \cup Tags,
          responds : {FALSE}, status : {FALSE}, fails : {TRUE}]

\* TaskResult::new_with_status; task_id is empty until the engine stamps it
TaskResult(response, next_action, status_message) ==
    [response |-> response, next_action |-> next_action, task_id |-> "",
     status_message |-> status_message]

\* one run of task t on a Context holding c, behaving as b
TaskRun(t, c, b) ==
    [ok |-> ~b.fails,
     ctx |-> IF b.write = Absent THEN c ELSE Context_set(c, t, b.write),
     result |-> TaskResult(
         IF b.responds THEN [by |-> t, echo |-> Context_get(c, InputKey)] ELSE Null,
         b.action,
         IF b.status THEN [by |-> t] ELSE Null)]

----------------------------------------------------------------------------
(* storage.rs: Session.  `context` is a handle into `heap`: Context is two *)
(* Arcs, so a clone of a Context (or of a Session) shares its state.       *)

Refs == 1..MaxRefs
SessionIds == {"s1"}

FreeRefs(h) == {r \in Refs : h[r] = Null}

NewRef(h) == CHOOSE r \in FreeRefs(h) : \A q \in FreeRefs(h) : r <= q

\* a clone that copies the state behind the handle into a new one
Context_clone_deep(h, r) == IF FreeRefs(h) = {} THEN r ELSE NewRef(h)

\* #[derive(Clone)] on Context: Arc::clone of data and chat_history
Context_clone(h, r) == r

\* #[derive(Clone)] on Session, as InMemorySessionStorage::get uses it (the
\* clone of a DashMap entry): the copy holds the same Context handle
Session_clone(s) == s

\* a new_from_task whose sessions all hold the first Context made
Session_new_from_task_shared(sid, task_name, ref) ==
    [id |-> sid, graph_id |-> "default", current_task_id |-> task_name,
     status_message |-> Null, context |-> 1]

\* Session::new_from_task; ref is the handle of its Context::new()
Session_new_from_task(sid, task_name, ref) ==
    [id |-> sid, graph_id |-> "default", current_task_id |-> task_name,
     status_message |-> Null, context |-> ref]

\* #[derive(Serialize)] on Session: `context` is #[serde(skip)]
Session_serialize(s) ==
    [id |-> s.id, graph_id |-> s.graph_id, current_task_id |-> s.current_task_id,
     status_message |-> s.status_message]

\* #[derive(Deserialize)]: the skipped field is Context::default(), whose
\* state lives behind the new handle `ref`
Session_deserialize(j, ref) ==
    [id |-> j.id, graph_id |-> j.graph_id, current_task_id |-> j.current_task_id,
     status_message |-> j.status_message, context |-> ref]

----------------------------------------------------------------------------
(* graph.rs: Graph::execute_session, one level of its recursion.  Each     *)
(* arm of the match yields the session as the arm leaves it and how the    *)
(* level ends: Ok(result), Err(error), or the recursive call.              *)

ExecutionResult(response, status) == [response |-> response, status |-> status]

Ends(s, result) == [kind |-> "Ok", session |-> s, result |-> result, error |-> Null]

Raises(s, error) == [kind |-> "Err", session |-> s, result |-> Null, error |-> error]

Recurses(s) == [kind |-> "Recurse", session |-> s, result |-> Null, error |-> Null]

\* a ContinueAndExecute arm that moves to the next task and returns
OnContinueAndExecuteHalts(g, s, c, r) ==
    LET s1 == [s EXCEPT !.status_message = r.status_message]
        next == find_next_task(g.edges, r.task_id, c)
    IN  Ends([s1 EXCEPT !.current_task_id = IF next # Absent THEN next ELSE r.task_id],
             ExecutionResult(r.response, "WaitingForInput"))

\* a ContinueAndExecute arm that reports Completed when no edge matches
OnContinueAndExecuteCompletes(g, s, c, r) ==
    LET s1 == [s EXCEPT !.status_message = r.status_message]
        next == find_next_task(g.edges, r.task_id, c)
    IN  IF next # Absent
        THEN Recurses([s1 EXCEPT !.current_task_id = next])
        ELSE Ends([s1 EXCEPT !.current_task_id = r.task_id],
                  ExecutionResult(r.response, "Completed"))

\* a ContinueAndExecute arm that resolves the edges against the Context
\* without what the executed task stored under its own key
OnContinueAndExecuteStale(g, s, c, r) ==
    LET s1 == [s EXCEPT !.status_message = r.status_message]
        next == find_next_task(g.edges, r.task_id, Context_remove(c, r.task_id))
    IN  IF next # Absent
        THEN Recurses([s1 EXCEPT !.current_task_id = next])
        ELSE Ends([s1 EXCEPT !.current_task_id = r.task_id],
                  ExecutionResult(r.response, "WaitingForInput"))

\* NextAction::ContinueAndExecute; c is the state of session.context
OnContinueAndExecute(g, s, c, r) ==
    LET s1 == [s EXCEPT !.status_message = r.status_message]
        next == find_next_task(g.edges, r.task_id, c)
    IN  IF next # Absent
        THEN Recurses([s1 EXCEPT !.current_task_id = next])
        ELSE Ends([s1 EXCEPT !.current_task_id = r.task_id],
                  ExecutionResult(r.response, "WaitingForInput"))

\* a Continue arm that goes on to execute the next task in the same call
OnContinueEager(g, s, c, r) == OnContinueAndExecute(g, s, c, r)

\* NextAction::Continue
OnContinue(g, s, c, r) ==
    LET s1 == [s EXCEPT !.status_message = r.status_message]
        next == find_next_task(g.edges, r.task_id, c)
    IN  Ends([s1 EXCEPT !.current_task_id = IF next # Absent THEN next ELSE r.task_id],
             ExecutionResult(r.response, "WaitingForInput"))

\* a WaitForInput/GoBack arm that follows the edges of the executed task
OnStayAdvances(g, s, c, r) ==
    LET next == find_next_task(g.edges, r.task_id, c)
    IN  Ends([s EXCEPT !.status_message = r.status_message,
                       !.current_task_id = IF next # Absent THEN next ELSE r.task_id],
             ExecutionResult(r.response, "WaitingForInput"))

\* NextAction::WaitForInput and NextAction::GoBack
OnStay(g, s, c, r) ==
    Ends([s EXCEPT !.status_message = r.status_message,
                   !.current_task_id = r.task_id],
         ExecutionResult(r.response, "WaitingForInput"))

\* an End arm that marks the session terminal by parking it off the graph
OnEndParks(g, s, c, r) ==
    Ends([s EXCEPT !.status_message = r.status_message,
                   !.current_task_id = Ghost],
         ExecutionResult(r.response, "Completed"))

\* an End arm that reports the session as waiting for input
OnEndWaits(g, s, c, r) ==
    Ends([s EXCEPT !.status_message = r.status_message,
                   !.current_task_id = r.task_id],
         ExecutionResult(r.response, "WaitingForInput"))

\* NextAction::End
OnEnd(g, s, c, r) ==
    Ends([s EXCEPT !.status_message = r.status_message,
                   !.current_task_id = r.task_id],
         ExecutionResult(r.response, "Completed"))

\* a GoTo arm that resolves the next task through the edges
OnGoToViaEdges(g, s, c, r) ==
    LET s1 == [s EXCEPT !.status_message = r.status_message]
        next == find_next_task(g.edges, r.task_id, c)
    IN  Ends([s1 EXCEPT !.current_task_id = IF next # Absent THEN next ELSE r.task_id],
             ExecutionResult(r.response, "WaitingForInput"))

\* NextAction::GoTo(target_id)
OnGoTo(g, s, c, r) ==
    LET s1 == [s EXCEPT !.status_message = r.status_message]
        target_id == r.next_action.target
    IN  IF target_id \in g.tasks
        THEN Ends([s1 EXCEPT !.current_task_id = target_id],
                  ExecutionResult(r.response, "WaitingForInput"))
        ELSE Raises(s1, [kind |-> "TaskNotFound", id |-> target_id])

\* match &result.next_action
MatchNextAction(g, s, c, r) ==
    CASE r.next_action.kind = "Continue" -> OnContinue(g, s, c, r)
      [] r.next_action.kind = "ContinueAndExecute" -> OnContinueAndExecute(g, s, c, r)
      [] r.next_action.kind = "WaitForInput" -> OnStay(g, s, c, r)
      [] r.next_action.kind = "GoBack" -> OnStay(g, s, c, r)
      [] r.next_action.kind = "End" -> OnEnd(g, s, c, r)
      [] r.next_action.kind = "GoTo" -> OnGoTo(g, s, c, r)


\* an execute_single_task that skips a task it cannot find
execute_single_task_lenient(g, task_id, c, b) ==
    IF task_id \notin g.tasks
    THEN [ok |-> TRUE, ctx |-> c,
          result |-> [TaskResult(Null, NextAction("End", ""), Null)
                         EXCEPT !.task_id = task_id],
          error |-> Null]
    ELSE LET run == TaskRun(task_id, c, b)
         IN  IF run.ok
             THEN [ok |-> TRUE, ctx |-> run.ctx,
                   result |-> [run.result EXCEPT !.task_id = task_id],
                   error |-> Null]
             ELSE [ok |-> FALSE, ctx |-> run.ctx, result |-> Null,
                   error |-> [kind |-> "TaskExecutionFailed", id |-> task_id]]

\* execute_single_task: look the task up, run it, stamp result.task_id
execute_single_task(g, task_id, c, b) ==
    IF task_id \notin g.tasks
    THEN [ok |-> FALSE, ctx |-> c, result |-> Null,
          error |-> [kind |-> "TaskNotFound", id |-> task_id]]
    ELSE LET run == TaskRun(task_id, c, b)
         IN  IF run.ok
             THEN [ok |-> TRUE, ctx |-> run.ctx,
                   result |-> [run.result EXCEPT !.task_id = task_id],
                   error |-> Null]
             ELSE [ok |-> FALSE, ctx |-> run.ctx, result |-> Null,
                   error |-> [kind |-> "TaskExecutionFailed", id |-> task_id]]

----------------------------------------------------------------------------
(* Spec: a host with one session in InMemorySessionStorage.  It creates    *)
(* the session, writes the user's input to its Context, may restart (the   *)
(* session is then rebuilt from its serialized form), and steps the        *)
(* session with FlowRunner::run.  run is three await segments: the load,   *)
(* one per task run of execute_session, and the save.                      *)

EngineConditions == {NoCondition, Condition("A", "v1")}

EmptyHeap == [r \in Refs |-> Null]

Init ==
    /\ ctx = Context_new
    /\ clock = 0
    /\ added = <<>>
    /\ wire = Null
    /\ snap = Null
    /\ restored = Null
    /\ found = Null
    /\ \E es \in SeqsUpTo(EdgesOver(TaskIds, EngineConditions), MaxGraphEdges) :
          graph = [tasks |-> Tasks, edges |-> es, start_task_id |-> "A"]
    /\ heap = EmptyHeap
    /\ store = [sid \in SessionIds |-> Null]
    /\ session = Null
    /\ pc = "idle"
    /\ outcome = Null
    /\ runs = <<>>
    /\ entry = Null
    /\ reload = Null
    /\ prev = Null
    /\ hist = Null
    /\ got = Null

\* the history of the last call is dropped when the host moves on
ForgetCall ==
    /\ session' = Null
    /\ outcome' = Null
    /\ runs' = <<>>
    /\ entry' = Null

\* Session::new_from_task(sid, task_name), then storage.save(session)
CreateSession ==
    \E sid \in SessionIds, task_name \in TaskIds :
        /\ pc = "idle"
        /\ store[sid] = Null
        /\ heap' = [heap EXCEPT ![NewRef(heap)] = Context_new]
        /\ store' = [store EXCEPT ![sid] =
                        Session_new_from_task(sid, task_name, NewRef(heap))]
        /\ ForgetCall
        /\ reload' = Null
        /\ prev' = Null
        /\ UNCHANGED <<ctxVars, auxVars, graph, found, pc>>

\* the host handler's session.context.set(USER_INPUT, content) on the
\* session it got from storage
HostSetInput ==
    \E sid \in SessionIds, v \in Inputs :
        /\ pc = "idle"
        /\ store[sid] # Null
        /\ heap' = [heap EXCEPT ![Session_clone(store[sid]).context] =
                       Context_set(heap[store[sid].context], InputKey, v)]
        /\ ForgetCall
        /\ reload' = Null
        /\ prev' = IF prev = Null THEN Null ELSE [prev EXCEPT !.input = v]
        /\ UNCHANGED <<ctxVars, auxVars, graph, found, store, pc>>

\* a restart: the session is serialized, the process and every Context
\* handle go away, and the session is deserialized in the new process
ReloadSession ==
    \E sid \in SessionIds :
        /\ pc = "idle"
        /\ store[sid] # Null
        /\ LET json == Session_serialize(store[sid])
               ref == NewRef(EmptyHeap)
               loaded == Session_deserialize(json, ref)
           IN  /\ heap' = [EmptyHeap EXCEPT ![ref] = Context_new]
               /\ store' = [store EXCEPT ![sid] = loaded]
               /\ reload' = [before |-> store[sid],
                             before_ctx |-> heap[store[sid].context],
                             after |-> loaded,
                             after_ctx |-> Context_new]
        /\ ForgetCall
        /\ prev' = Null
        /\ UNCHANGED <<ctxVars, auxVars, graph, found, pc>>

\* a load that creates the session it does not find
RunnerLoadOrCreate ==
    \E sid \in SessionIds :
        /\ pc = "idle"
        /\ reload' = Null
        /\ runs' = <<>>
        /\ prev' = prev
        /\ IF store[sid] = Null
           THEN /\ heap' = [heap EXCEPT ![NewRef(heap)] = Context_new]
                /\ store' = [store EXCEPT ![sid] =
                       Session_new_from_task(sid, graph.start_task_id, NewRef(heap))]
                /\ session' = store'[sid]
                /\ entry' = store'[sid]
           ELSE /\ session' = Session_clone(store[sid])
                /\ entry' = store[sid]
                /\ UNCHANGED <<heap, store>>
        /\ outcome' = [exec |-> "Running", run |-> "Pending", result |-> Null,
                       error |-> Null, task_response |-> Null, task_status |-> Null]
        /\ pc' = "exec"
        /\ UNCHANGED <<ctxVars, auxVars, graph, found>>

\* FlowRunner::run, 1. Load session
RunnerLoad ==
    \E sid \in SessionIds :
        /\ pc = "idle"
        /\ reload' = Null
        /\ runs' = <<>>
        /\ IF store[sid] = Null
           THEN /\ outcome' = [exec |-> "NotCalled", run |-> "Err", result |-> Null,
                               error |-> [kind |-> "SessionNotFound", id |-> sid],
                               task_response |-> Null, task_status |-> Null]
                /\ session' = Null
                /\ entry' = Null
                /\ pc' = "idle"
           ELSE /\ session' = Session_clone(store[sid])
                /\ entry' = store[sid]
                /\ outcome' = [exec |-> "Running", run |-> "Pending", result |-> Null,
                               error |-> Null, task_response |-> Null, task_status |-> Null]
                /\ pc' = "exec"
        /\ UNCHANGED <<ctxVars, auxVars, graph, found, heap, store, prev>>

\* FlowRunner::run, 2. one level of Graph::execute_session: the current
\* task runs on a clone of session.context, then the match on its action
ExecuteSessionStep ==
    \E b \in Behaviours :
        /\ pc = "exec"
        /\ Len(runs) < MaxChain
        /\ LET tid == session.current_task_id
               handle == Context_clone(heap, session.context)
               single == execute_single_task(graph, tid, heap[session.context], b)
               heap1 == [heap EXCEPT ![handle] = single.ctx]
               step == IF single.ok
                       THEN MatchNextAction(graph, session, heap1[session.context],
                                            single.result)
                       ELSE Raises(session, single.error)
           IN  /\ heap' = heap1
               /\ session' = step.session
               /\ runs' = IF tid \in graph.tasks
                          THEN Append(runs, [task |-> tid,
                                             saw |-> heap[session.context].data,
                                             wrote |-> b.write,
                                             action |-> b.action.kind,
                                             target |-> b.action.target])
                          ELSE runs
               /\ CASE step.kind = "Recurse" ->
                         /\ pc' = "exec"
                         /\ outcome' = outcome
                    [] step.kind = "Ok" ->
                         /\ pc' = "save"
                         /\ outcome' = [outcome EXCEPT
                                          !.exec = "Ok",
                                          !.result = step.result,
                                          !.task_response = single.result.response,
                                          !.task_status = single.result.status_message]
                    [] step.kind = "Err" ->
                         /\ pc' = "idle"
                         /\ outcome' = [outcome EXCEPT !.exec = "Err", !.run = "Err",
                                                       !.error = step.error]
        /\ prev' = Null
        /\ UNCHANGED <<ctxVars, auxVars, graph, found, store, entry, reload>>

\* what the call whose runs are rs left behind for the next call: the task
\* it ended on when that task asked to stay (WaitForInput, GoBack) or to End
StayedAt(rs) ==
    IF rs # <<>> /\ rs[Len(rs)].action \in {"WaitForInput", "GoBack", "End"}
    THEN [task |-> rs[Len(rs)].task, action |-> rs[Len(rs)].action, input |-> Absent]
    ELSE Null

\* a run that reports Ok whether or not the save went through
RunnerSaveUnchecked ==
    \E saved \in BOOLEAN :
        /\ pc = "save"
        /\ store' = IF saved THEN [store EXCEPT ![session.id] = session] ELSE store
        /\ outcome' = [outcome EXCEPT !.run = "Ok"]
        /\ pc' = "idle"
        /\ runs' = <<>>
        /\ entry' = Null
        /\ prev' = IF saved THEN StayedAt(runs) ELSE Null
        /\ UNCHANGED <<ctxVars, auxVars, graph, found, heap, session, reload>>

\* FlowRunner::run, 3. storage.save(session).await?, then Ok(result).
\* SessionStorage::save returns a Result: `saved` is whether it is Ok
RunnerSave ==
    \E saved \in BOOLEAN :
        /\ pc = "save"
        /\ IF saved
           THEN /\ store' = [store EXCEPT ![session.id] = session]
                /\ outcome' = [outcome EXCEPT !.run = "Ok"]
           ELSE /\ store' = store
                /\ outcome' = [outcome EXCEPT !.run = "Err", !.result = Null,
                                 !.error = [kind |-> "StorageError", id |-> session.id]]
        /\ pc' = "idle"
        /\ runs' = <<>>
        /\ entry' = Null
        /\ prev' = IF saved THEN StayedAt(runs) ELSE Null
        /\ UNCHANGED <<ctxVars, auxVars, graph, found, heap, session, reload>>

\* the host's completion handling after run returned Completed: it gets the
\* session, sets the completion flag in its Context, overwrites
\* current_task_id and saves; a failed save is only logged
HostMarkCompleted ==
    \E sid \in SessionIds, saved \in BOOLEAN :
        /\ pc = "idle"
        /\ outcome # Null
        /\ outcome.run = "Ok"
        /\ outcome.result.status = "Completed"
        /\ store[sid] # Null
        /\ LET loaded == Session_clone(store[sid])
               marked == [loaded EXCEPT !.current_task_id = CompletedMark]
           IN  /\ heap' = [heap EXCEPT ![loaded.context] =
                              Context_set(heap[loaded.context], CompletedKey, "true")]
               /\ store' = IF saved THEN [store EXCEPT ![sid] = marked] ELSE store
               /\ session' = IF saved THEN marked ELSE session
               /\ prev' = IF saved THEN Null ELSE prev
        /\ UNCHANGED <<ctxVars, auxVars, graph, found, pc, outcome, runs, entry, reload>>

Next ==
    \/ CreateSession
    \/ HostSetInput
    \/ ReloadSession
    \/ RunnerLoad
    \/ ExecuteSessionStep
    \/ RunnerSave
    \/ HostMarkCompleted

Spec == Init /\ [][Next]_vars

----------------------------------------------------------------------------
(* Claims about the engine, the Session and FlowRunner. *)

\* execute_session has just returned Ok to FlowRunner::run
ReturnedOk == pc = "save"

LastRun == runs[Len(runs)]

\* the Context data after the writes of the first n runs of the call, over
\* the data `base` the call started with
DataAfterRuns(base, n) ==
    [k \in Keys |->
        LET writers == {i \in 1..n : runs[i].task = k /\ runs[i].wrote # Absent}
        IN  IF writers = {} THEN base[k]
            ELSE runs[CHOOSE i \in writers : \A j \in writers : j <= i].wrote]

\* C1: whenever execute_session returns Ok, session.current_task_id names a
\* task registered in the graph, whatever edges were added.
C1_CurrentTaskRegistered == ReturnedOk => session.current_task_id \in graph.tasks

\* what the first level of execute_session yields for a session whose
\* Context holds c, when its task behaves as b
FirstLevel(s, c, b) ==
    LET single == execute_single_task(graph, s.current_task_id, c, b)
    IN  IF single.ok THEN MatchNextAction(graph, s, single.ctx, single.result)
        ELSE Raises(s, single.error)

\* C2: a Session that was serialized and deserialized carries the same
\* Context data and chat history, and a step of it yields the same
\* ExecutionResult as a step of the original.
C2_SessionRoundTrip ==
    reload # Null =>
        /\ reload.after_ctx.data = reload.before_ctx.data
        /\ get_all_messages(reload.after_ctx) = get_all_messages(reload.before_ctx)
        /\ \A b \in Behaviours :
              FirstLevel(reload.after, reload.after_ctx, b).result
                  = FirstLevel(reload.before, reload.before_ctx, b).result

\* C3: inside one execute_session call every task of the chain sees the
\* Context writes of the tasks that ran before it in the call, and the
\* caller sees them all in session.context when the call has returned.
C3_ChainWritesVisible ==
    /\ \A j \in 1..Len(runs) : runs[j].saw = DataAfterRuns(runs[1].saw, j - 1)
    /\ (ReturnedOk /\ runs # <<>>)
          => heap[session.context].data = DataAfterRuns(runs[1].saw, Len(runs))

\* a chain of two runs returned; the first wrote a tag that was not there
C3_Witness ==
    /\ ReturnedOk
    /\ Len(runs) >= 2
    /\ runs[1].wrote # Absent
    /\ runs[1].saw[runs[1].task] = Absent
    /\ runs[2].saw[runs[1].task] = runs[1].wrote
    /\ heap[session.context].data[runs[1].task] = runs[1].wrote

\* C4: FlowRunner::run returns Ok or an error; when it returns Ok the step
\* succeeded and the session in storage is the stepped session (its
\* current_task_id and status_message).
C4_RunSavesOrFails ==
    (pc = "idle" /\ outcome # Null) =>
        /\ outcome.run \in {"Ok", "Err"}
        /\ outcome.run = "Ok" =>
              /\ outcome.exec = "Ok"
              /\ store[session.id] # Null
              /\ store[session.id].current_task_id = session.current_task_id
              /\ store[session.id].status_message = session.status_message

\* run returned Ok and the stored session shows the step: a status message
\* (sessions are created without one) and a registered current task
C4_Witness ==
    /\ pc = "idle"
    /\ outcome # Null
    /\ outcome.run = "Ok"
    /\ store[session.id].status_message # Null
    /\ store[session.id].current_task_id = "B"
    /\ outcome.result.response # Null

\* C10: a task that returns Continue is the last task of its call: the call
\* returns WaitingForInput with that task's response, and current_task_id
\* is the edge-resolved next task, or the executed task when no edge matches.
C10_ContinueEndsTheCall ==
    /\ \A i \in 1..(Len(runs) - 1) : runs[i].action # "Continue"
    /\ (runs # <<>> /\ LastRun.action = "Continue") =>
          /\ ReturnedOk
          /\ outcome.result.status = "WaitingForInput"
          /\ outcome.result.response = outcome.task_response
          /\ LET next == FirstMatch(graph.edges, LastRun.task, heap[session.context])
             IN  session.current_task_id = IF next # Absent THEN next ELSE LastRun.task

\* on the linear graph A -> B, the call that started at A ran A alone,
\* which returned Continue with a response, and left the session at B
C10_Witness ==
    /\ ReturnedOk
    /\ graph.edges = <<Edge("A", "B", NoCondition)>>
    /\ entry.current_task_id = "A"
    /\ Len(runs) = 1
    /\ LastRun.task = "A"
    /\ LastRun.action = "Continue"
    /\ session.current_task_id = "B"
    /\ outcome.result.response # Null

\* the Context c with its data replaced by d
WithData(c, d) == [c EXCEPT !.data = d]

\* C11: a chain of tasks returning ContinueAndExecute is run through by one
\* execute_session call, each task followed by the edge-resolved next one
\* until a task returns another action or no edge matches, and the result
\* carries the response and the status of the last task that ran only.
C11_ChainRunsThrough ==
    /\ \A i \in 1..(Len(runs) - 1) :
          /\ runs[i].action = "ContinueAndExecute"
          /\ runs[i + 1].task =
                FirstMatch(graph.edges, runs[i].task,
                           WithData(heap[session.context], runs[i + 1].saw))
    /\ (pc = "exec" /\ runs # <<>>) =>
          /\ LastRun.action = "ContinueAndExecute"
          /\ session.current_task_id =
                FirstMatch(graph.edges, LastRun.task, heap[session.context])
    /\ ReturnedOk =>
          /\ LastRun.action = "ContinueAndExecute" =>
                FirstMatch(graph.edges, LastRun.task, heap[session.context]) = Absent
          /\ outcome.result.response = outcome.task_response
          /\ outcome.result.response # Null =>
                outcome.result.response.by = LastRun.task
          /\ outcome.result.status =
                IF LastRun.action = "End" THEN "Completed" ELSE "WaitingForInput"

\* one call ran A, which returned ContinueAndExecute with a response, and
\* then B, which returned End: the result is Completed with B's response
C11_Witness ==
    /\ ReturnedOk
    /\ Len(runs) = 2
    /\ runs[1].task = "A"
    /\ runs[1].action = "ContinueAndExecute"
    /\ runs[2].task = "B"
    /\ runs[2].action = "End"
    /\ outcome.result.status = "Completed"
    /\ outcome.result.response # Null
    /\ outcome.result.response.by = "B"

\* C12: a task that returns ContinueAndExecute with no matching edge has the
\* effect of the same task returning WaitForInput: the same session, no
\* further run, WaitingForInput with the task's response.
C12_NoEdgeActsAsWaitForInput ==
    /\ (pc = "exec" /\ session.current_task_id \in graph.tasks) =>
          \A b \in Behaviours :
              (/\ b.action.kind = "ContinueAndExecute"
               /\ ~b.fails
               /\ FirstMatch(graph.edges, session.current_task_id,
                             TaskRun(session.current_task_id,
                                     heap[session.context], b).ctx) = Absent)
                 => FirstLevel(session, heap[session.context], b)
                      = FirstLevel(session, heap[session.context],
                                   [b EXCEPT !.action = NextAction("WaitForInput", "")])
    /\ (ReturnedOk /\ LastRun.action = "ContinueAndExecute") =>
          /\ session.current_task_id = LastRun.task
          /\ outcome.result.status = "WaitingForInput"
          /\ outcome.result.response = outcome.task_response

\* a call returned after a task that answered ContinueAndExecute while its
\* only outgoing edge was conditional and its condition did not hold
C12_Witness ==
    /\ ReturnedOk
    /\ LastRun.action = "ContinueAndExecute"
    /\ \E i \in 1..Len(graph.edges) :
          /\ graph.edges[i].from = LastRun.task
          /\ graph.edges[i].condition # NoCondition
    /\ FirstMatch(graph.edges, LastRun.task, heap[session.context]) = Absent
    /\ session.current_task_id = LastRun.task
    /\ outcome.result.status = "WaitingForInput"
    /\ outcome.result.response # Null

C14_EndIsNotTerminal ==
    /\ []((ReturnedOk /\ LastRun.action = "End") =>
            /\ session.current_task_id = LastRun.task
            /\ outcome.result.status = "Completed")
    /\ []((pc = "exec" /\ prev # Null /\ prev.action = "End") =>
            /\ runs = <<>>
            /\ session.current_task_id = prev.task)
    /\ [][(/\ pc = "exec"
            /\ prev # Null
            /\ prev.action = "End"
            /\ (pc' # "exec" \/ runs' # runs))
              => /\ Len(runs') = 1
                 /\ runs'[1].task = prev.task]_vars

\* a call ended with End at B and was saved, and the next call has loaded
\* the session and is about to run B again
C14_Witness ==
    /\ pc = "exec"
    /\ prev # Null
    /\ prev.action = "End"
    /\ prev.task = "B"
    /\ session.current_task_id = "B"
    /\ runs = <<>>

\* C15: a task that returns GoTo(target) with target registered ends the
\* call: current_task_id is target whatever the edges say, target has not
\* run, and the result is WaitingForInput with the task's response.
C15_GoToJumps ==
    /\ \A i \in 1..(Len(runs) - 1) : runs[i].action # "GoTo"
    /\ (/\ runs # <<>>
        /\ LastRun.action = "GoTo"
        /\ LastRun.target \in graph.tasks) =>
          /\ ReturnedOk
          /\ session.current_task_id = LastRun.target
          /\ outcome.result.status = "WaitingForInput"
          /\ outcome.result.response = outcome.task_response

\* a task with an unconditional edge to another task returned GoTo to a
\* task that edge does not lead to, and the session is at the GoTo target
C15_Witness ==
    /\ ReturnedOk
    /\ LastRun.action = "GoTo"
    /\ LastRun.target \in graph.tasks
    /\ \E i \in 1..Len(graph.edges) :
          /\ graph.edges[i].from = LastRun.task
          /\ graph.edges[i].condition = NoCondition
          /\ graph.edges[i].to # LastRun.target
    /\ session.current_task_id = LastRun.target

\* execute_session has just returned an error to FlowRunner::run
ReturnedErr == pc = "idle" /\ outcome # Null /\ outcome.exec = "Err"

\* C16: a task that returns GoTo(target) with target not registered makes
\* the call return TaskNotFound(target) with the session's current_task_id
\* and status_message as they were before the call.
C16_GoToMissingKeepsSession ==
    (/\ ReturnedErr
     /\ runs # <<>>
     /\ LastRun.action = "GoTo"
     /\ LastRun.target \notin graph.tasks) =>
        /\ outcome.error = [kind |-> "TaskNotFound", id |-> LastRun.target]
        /\ session.current_task_id = entry.current_task_id
        /\ session.status_message = entry.status_message

\* C17: when a task's run fails, the call returns that error and
\* session.current_task_id is what it was when the call started, wherever
\* in the chain the failing task ran.
C17_FailureKeepsCurrentTask ==
    (ReturnedErr /\ outcome.error.kind = "TaskExecutionFailed") =>
        /\ runs # <<>>
        /\ outcome.error.id = LastRun.task
        /\ session.current_task_id = entry.current_task_id

\* C18: a call on a session whose current_task_id names no task of the graph
\* returns TaskNotFound(current_task_id) and runs nothing: the session, the
\* Context and the storage are as before.
C18_UnknownCurrentTask ==
    [][(pc = "exec" /\ session.current_task_id \notin graph.tasks) =>
          /\ pc' = "idle"
          /\ outcome'.exec = "Err"
          /\ outcome'.error = [kind |-> "TaskNotFound", id |-> session.current_task_id]
          /\ session' = session
          /\ runs' = runs
          /\ heap' = heap
          /\ store' = store]_vars

\* a session created at an unregistered task was stepped: the call failed
\* with TaskNotFound of that id, no task ran and the session is as loaded
C18_Witness ==
    /\ ReturnedErr
    /\ outcome.error = [kind |-> "TaskNotFound", id |-> Ghost]
    /\ session.current_task_id = Ghost
    /\ runs = <<>>
    /\ session = entry
    /\ store[session.id] = entry

\* C19: FlowRunner::run for a session id that storage does not hold returns
\* SessionNotFound(id); no task runs and the storage is unchanged.
C19_UnknownSession ==
    [][\A sid \in SessionIds :
          (pc = "idle" /\ store[sid] = Null /\ outcome' # outcome /\ outcome' # Null) =>
              /\ outcome'.run = "Err"
              /\ outcome'.exec = "NotCalled"
              /\ outcome'.error = [kind |-> "SessionNotFound", id |-> sid]
              /\ pc' = "idle"
              /\ runs' = <<>>
              /\ session' = Null
              /\ store' = store
              /\ heap' = heap]_vars

\* run was called before any session was saved and returned SessionNotFound
C19_Witness ==
    /\ pc = "idle"
    /\ outcome # Null
    /\ outcome.run = "Err"
    /\ outcome.error = [kind |-> "SessionNotFound", id |-> "s1"]
    /\ store["s1"] = Null
    /\ runs = <<>>

\* C20: the Session that storage.get returned is a deep copy: until it is
\* saved, what its tasks wrote to its Context does not show in the Context
\* of the stored Session, which holds the data it held at the get.
C20_GetReturnsDeepCopy ==
    runs # <<>> => heap[store[session.id].context].data = runs[1].saw

\* C28: each FlowRunner::run call executes exactly one task, the one named by
\* the loaded session's current_task_id, before it saves the session.
C28_RunExecutesOneTask ==
    ReturnedOk =>
        /\ Len(runs) = 1
        /\ runs[1].task = entry.current_task_id

\* C29: after a successful call session.status_message is the status
\* message of the executed task's result when it carries one, and the value
\* it had before when the result carries none.
C29_StatusMessageKept ==
    ReturnedOk =>
        /\ outcome.task_status # Null => session.status_message = outcome.task_status
        /\ (outcome.task_status = Null /\ Len(runs) = 1) =>
              session.status_message = entry.status_message

\* C30: between steps the stored Session's current_task_id names a task of
\* the graph; stated for the sessions whose last run returned Completed,
\* once the host has handled the completion.
C30_StoredTaskRegistered ==
    (/\ pc = "idle"
     /\ outcome # Null
     /\ outcome.run = "Ok"
     /\ outcome.result.status = "Completed") =>
        store[session.id].current_task_id \in graph.tasks

\* the Context of the call as it is once the first n runs have written
AfterRuns(n) == WithData(heap[session.context], DataAfterRuns(runs[1].saw, n))

\* C32: the edge conditions evaluated after a task's run see the Context
\* with what that run wrote: the task that follows in the same call, and
\* the task the session moves to, is the target of the first edge matching
\* the Context after the run (a task that writes the value a conditional
\* edge tests and returns ContinueAndExecute is followed by that target).
C32_ConditionsSeeTaskWrites ==
    /\ \A i \in 1..(Len(runs) - 1) :
          runs[i + 1].task = FirstMatch(graph.edges, runs[i].task, AfterRuns(i))
    /\ (ReturnedOk /\ LastRun.action = "ContinueAndExecute") =>
          FirstMatch(graph.edges, LastRun.task, AfterRuns(Len(runs))) = Absent
    /\ (ReturnedOk /\ LastRun.action = "Continue") =>
          session.current_task_id =
              IF FirstMatch(graph.edges, LastRun.task, AfterRuns(Len(runs))) # Absent
              THEN FirstMatch(graph.edges, LastRun.task, AfterRuns(Len(runs)))
              ELSE LastRun.task

\* A ran with nothing under key A, wrote A = v1 and returned
\* ContinueAndExecute; the only edge, from A to B on A = v1, matched no
\* Context before the run, and B ran next in the same call
C32_Witness ==
    /\ Len(runs) = 2
    /\ runs[1].task = "A"
    /\ runs[1].saw["A"] = Absent
    /\ runs[1].wrote = "v1"
    /\ runs[1].action = "ContinueAndExecute"
    /\ graph.edges = <<Edge("A", "B", Condition("A", "v1"))>>
    /\ FirstMatch(graph.edges, "A", WithData(heap[session.context], runs[1].saw)) = Absent
    /\ runs[2].task = "B"

\* C35: an Ok result of execute_session has status Completed exactly when
\* the last task executed in the call returned End, and WaitingForInput in
\* every other case; the engine never produces the status Error.
C35_StatusFollowsLastAction ==
    /\ ReturnedOk =>
          /\ runs # <<>>
          /\ outcome.result.status \in {"Completed", "WaitingForInput"}
          /\ outcome.result.status = "Completed" <=> LastRun.action = "End"
    /\ (outcome # Null /\ outcome.result # Null) =>
          outcome.result.status \in {"Completed", "WaitingForInput"}

\* a call whose only task returned End came back Completed
C35_Witness ==
    /\ ReturnedOk
    /\ Len(runs) = 1
    /\ LastRun.action = "End"
    /\ outcome.result.status = "Completed"

\* C36: when the step fails inside FlowRunner::run, run returns the error
\* without saving and the session stored under session_id is as before the
\* call: same current_task_id, same status_message, same Context data.
C36_FailedStepLeavesStored ==
    (ReturnedErr /\ runs # <<>>) =>
        /\ outcome.run = "Err"
        /\ store[session.id] = entry
        /\ store[session.id].current_task_id = entry.current_task_id
        /\ store[session.id].status_message = entry.status_message
        /\ heap[store[session.id].context].data = runs[1].saw

----------------------------------------------------------------------------
(* SpecKV: the key-value side of one Context under set, set_sync, remove,  *)
(* clear, get and get_sync.  Values are stored as serde_json values; a     *)
(* read asks for a type T and gets None when the stored value is not one.  *)

\* the values of SpecKV: two strings and a number
NumberVals == {"7"}
KvVals == Vals \cup NumberVals
JsonTypes == {"string", "number"}

\* the JSON kind of a stored value
JsonKind(j) == IF j \in NumberVals THEN "number" ELSE "string"

\* serde_json::from_value::<T>(v).ok()
from_value(T, j) == IF JsonKind(j) = T THEN j ELSE Absent

\* Context::get::<T>(key)
Context_get_as(c, k, T) ==
    IF c.data[k] = Absent THEN Absent ELSE from_value(T, c.data[k])

\* Context::get_sync::<T>(key)
Context_get_sync_as(c, k, T) ==
    IF c.data[k] = Absent THEN Absent ELSE from_value(T, c.data[k])

\* a set_sync that writes to a map of its own
Context_set_sync_detached(c, k, v) == c

\* Context::set_sync(key, value)
Context_set_sync(c, k, v) == [c EXCEPT !.data[k] = v]

InitKV ==
    /\ ctx = Context_new
    /\ clock = 0
    /\ added = <<>>
    /\ wire = Null
    /\ snap = Null
    /\ restored = Null
    /\ graph = EmptyGraph
    /\ found = Null
    /\ heap = <<>>
    /\ store = Null
    /\ session = Null
    /\ pc = "idle"
    /\ outcome = Null
    /\ runs = <<>>
    /\ entry = Null
    /\ reload = Null
    /\ prev = Null
    /\ hist = EmptyData
    /\ got = Null

KvSet ==
    \E k \in CtxKeys, v \in KvVals :
        /\ ctx' = Context_set(ctx, k, v)
        /\ hist' = [hist EXCEPT ![k] = v]
        /\ got' = Null
        /\ UNCHANGED <<clock, added, wire, snap, restored, graph, found, engVars>>

KvSetSync ==
    \E k \in CtxKeys, v \in KvVals :
        /\ ctx' = Context_set_sync(ctx, k, v)
        /\ hist' = [hist EXCEPT ![k] = v]
        /\ got' = Null
        /\ UNCHANGED <<clock, added, wire, snap, restored, graph, found, engVars>>

KvRemove ==
    \E k \in CtxKeys :
        /\ ctx' = Context_remove(ctx, k)
        /\ hist' = [hist EXCEPT ![k] = Absent]
        /\ got' = Null
        /\ UNCHANGED <<clock, added, wire, snap, restored, graph, found, engVars>>

KvClear ==
    /\ ctx' = Context_clear(ctx)
    /\ hist' = EmptyData
    /\ got' = Null
    /\ UNCHANGED <<clock, added, wire, snap, restored, graph, found, engVars>>

KvGet ==
    \E k \in CtxKeys, T \in JsonTypes :
        /\ got' = [via |-> "get", key |-> k, as |-> T,
                   value |-> Context_get_as(ctx, k, T)]
        /\ UNCHANGED <<ctxVars, graph, found, engVars, hist>>

KvGetSync ==
    \E k \in CtxKeys, T \in JsonTypes :
        /\ got' = [via |-> "get_sync", key |-> k, as |-> T,
                   value |-> Context_get_sync_as(ctx, k, T)]
        /\ UNCHANGED <<ctxVars, graph, found, engVars, hist>>

NextKV ==
    \/ KvSet
    \/ KvSetSync
    \/ KvRemove
    \/ KvClear
    \/ KvGet
    \/ KvGetSync

SpecKV == InitKV /\ [][NextKV]_vars

\* what a read of key k as type T returns when w holds, per key, the value
\* of the last set or set_sync not followed by a remove of the key or a clear
LastWritten(w, k, T) ==
    IF w[k] # Absent /\ JsonKind(w[k]) = T THEN w[k] ELSE Absent

\* C24: get(k) and get_sync(k) return the value of the most recent set or
\* set_sync on k that no remove(k) or clear() followed (read as the type it
\* was written with), and absent otherwise; both variants use one store.
C24_LastWriteWins ==
    /\ \A k \in Keys, T \in JsonTypes :
          /\ Context_get_as(ctx, k, T) = LastWritten(hist, k, T)
          /\ Context_get_sync_as(ctx, k, T) = LastWritten(hist, k, T)
    /\ got # Null => got.value = LastWritten(hist, got.key, got.as)

\* get returned the string last written under the input key while key A
\* holds a number, which reads as absent when asked for as a string, and
\* key B holds nothing
C24_Witness ==
    /\ got # Null
    /\ got.via = "get"
    /\ got.key = InputKey
    /\ got.value = "v2"
    /\ hist["A"] = "7"
    /\ hist["B"] = Absent
    /\ Context_get_sync_as(ctx, "A", "number") = "7"
    /\ Context_get_as(ctx, "A", "string") = Absent

\* C38: the two parts of a Context are independent: clear, set, set_sync
\* and remove leave the chat history (messages and bound) unchanged, and
\* add_*_message and clear_chat_history leave every data entry unchanged.
C38_PartsIndependent ==
    /\ [](/\ Context_clear(ctx).chat_history = ctx.chat_history
          /\ \A k \in Keys :
                /\ Context_remove(ctx, k).chat_history = ctx.chat_history
                /\ \A v \in Vals :
                      /\ Context_set(ctx, k, v).chat_history = ctx.chat_history
                      /\ Context_set_sync(ctx, k, v).chat_history = ctx.chat_history
          /\ Context_clear_chat_history(ctx).data = ctx.data
          /\ \A role \in MessageRole, content \in Contents :
                Context_add_message(ctx, role, content, clock).data = ctx.data)
    /\ [][/\ ctx'.data # ctx.data => ctx'.chat_history = ctx.chat_history
          /\ ctx'.chat_history # ctx.chat_history => ctx'.data = ctx.data]_vars

\* a Context holds a data entry and two messages under a configured bound:
\* clear() empties the data and keeps both messages and the bound, and
\* clear_chat_history() empties the messages and keeps the entry
C38_Witness ==
    /\ PresentKeys(ctx) # {}
    /\ chat_history_len(ctx) = 2
    /\ ctx.chat_history.max_messages = MaxBound
    /\ PresentKeys(Context_clear(ctx)) = {}
    /\ get_all_messages(Context_clear(ctx)) = get_all_messages(ctx)
    /\ Context_clear(ctx).chat_history.max_messages = MaxBound
    /\ chat_history_len(Context_clear_chat_history(ctx)) = 0
    /\ PresentKeys(Context_clear_chat_history(ctx)) = PresentKeys(ctx)

----------------------------------------------------------------------------
(* SpecStore: one InMemorySessionStorage (a map from session id to         *)
(* Session) under save, get and delete for two session ids.                *)

StoreIds == {"s1", "s2"}

\* the Context handle of the sessions a host builds for a session id
RefOf(sid) == IF sid = "s1" THEN 1 ELSE 2

\* the sessions handed to save
SessionsToSave ==
    {[Session_new_from_task(sid, t, RefOf(sid)) EXCEPT !.status_message = m] :
        sid \in StoreIds, t \in TaskIds, m \in {Null, [by |-> "A"]}}

\* a save that keeps the entry an id already has
InMemorySessionStorage_save_if_absent(m, s) ==
    IF m[s.id] = Null THEN [m EXCEPT ![s.id] = s] ELSE m

\* InMemorySessionStorage::save: sessions.insert(session.id.clone(), session)
InMemorySessionStorage_save(m, s) == [m EXCEPT ![s.id] = s]

\* InMemorySessionStorage::get: sessions.get(id).map(|entry| entry.clone())
InMemorySessionStorage_get(m, id) ==
    IF m[id] = Null THEN Null ELSE Session_clone(m[id])

\* InMemorySessionStorage::delete: sessions.remove(id)
InMemorySessionStorage_delete(m, id) == [m EXCEPT ![id] = Null]

InitStore ==
    /\ ctx = Context_new
    /\ clock = 0
    /\ added = <<>>
    /\ wire = Null
    /\ snap = Null
    /\ restored = Null
    /\ graph = EmptyGraph
    /\ found = Null
    /\ heap = [r \in Refs |-> Context_new]
    /\ store = [sid \in StoreIds |-> Null]
    /\ session = Null
    /\ pc = "idle"
    /\ outcome = Null
    /\ runs = <<>>
    /\ entry = Null
    /\ reload = Null
    /\ prev = Null
    /\ hist = [sid \in StoreIds |-> Null]
    /\ got = Null

StorageSave ==
    \E s \in SessionsToSave :
        /\ store' = InMemorySessionStorage_save(store, s)
        /\ hist' = [hist EXCEPT ![s.id] = s]
        /\ got' = Null
        /\ UNCHANGED <<ctxVars, graph, found, heap, session, pc, outcome, runs,
                       entry, reload, prev>>

StorageGet ==
    \E id \in StoreIds :
        /\ got' = [id |-> id, value |-> InMemorySessionStorage_get(store, id)]
        /\ UNCHANGED <<ctxVars, graph, found, engVars, hist>>

StorageDelete ==
    \E id \in StoreIds :
        /\ store' = InMemorySessionStorage_delete(store, id)
        /\ hist' = [hist EXCEPT ![id] = Null]
        /\ got' = Null
        /\ UNCHANGED <<ctxVars, graph, found, heap, session, pc, outcome, runs,
                       entry, reload, prev>>

NextStore ==
    \/ StorageSave
    \/ StorageGet
    \/ StorageDelete

SpecStore == InitStore /\ [][NextStore]_vars

\* C21: get(id) returns the session most recently saved under id (a save
\* replaces the entry of its id), and nothing when id was never saved or
\* was deleted since; a save or delete of one id leaves get of another id
\* as it was.
C21_StorageIsAMap ==
    /\ [](\A id \in StoreIds : InMemorySessionStorage_get(store, id) = hist[id])
    /\ [](got # Null => got.value = hist[got.id])
    /\ [][\A s \in SessionsToSave, id \in StoreIds :
            (id # s.id /\ (hist' = [hist EXCEPT ![s.id] = s]
                             \/ hist' = [hist EXCEPT ![s.id] = Null]))
              => InMemorySessionStorage_get(store', id)
                   = InMemorySessionStorage_get(store, id)]_vars

\* get of s1 returned a saved session that is at B and has a status
\* message, while s2 holds a session of its own at A
C21_Witness ==
    /\ got # Null
    /\ got.id = "s1"
    /\ got.value # Null
    /\ got.value.current_task_id = "B"
    /\ got.value.status_message # Null
    /\ store["s2"] # Null
    /\ store["s2"].current_task_id = "A"

----------------------------------------------------------------------------
(* SpecBuild: a Graph put together through GraphBuilder, built, and then   *)
(* used through the methods Graph offers on a shared reference.            *)

\* Graph::new
Graph_new == [tasks |-> {}, edges |-> <<>>, start_task_id |-> Absent]

\* an add_task that makes every added task the start task
Graph_add_task_last_starts(g, task_id) ==
    [g EXCEPT !.tasks = g.tasks \cup {task_id}, !.start_task_id = task_id]

\* Graph::add_task
Graph_add_task(g, task_id) ==
    LET is_first == g.tasks = {}
        g1 == [g EXCEPT !.tasks = g.tasks \cup {task_id}]
    IN  IF is_first THEN [g1 EXCEPT !.start_task_id = task_id] ELSE g1

\* Graph::set_start_task
Graph_set_start_task(g, task_id) ==
    IF task_id \in g.tasks THEN [g EXCEPT !.start_task_id = task_id] ELSE g

\* Graph::add_edge
Graph_add_edge(g, from, to) ==
    [g EXCEPT !.edges = Append(g.edges, Edge(from, to, NoCondition))]

\* Graph::add_conditional_edge
Graph_add_conditional_edge(g, from, to, condition) ==
    [g EXCEPT !.edges = Append(g.edges, Edge(from, to, condition))]

\* Graph::start_task_id
Graph_start_task_id(g) == g.start_task_id

InitBuild ==
    /\ ctx = Context_new
    /\ clock = 0
    /\ added = <<>>
    /\ wire = Null
    /\ snap = Null
    /\ restored = Null
    /\ graph = Graph_new
    /\ found = Null
    /\ heap = <<>>
    /\ store = Null
    /\ session = Null
    /\ pc = "building"
    /\ outcome = Null
    /\ runs = <<>>
    /\ entry = Null
    /\ reload = Null
    /\ prev = Null
    /\ hist = [first |-> Absent, chosen |-> Absent, built |-> Null]
    /\ got = Null

\* the frame of every step of SpecBuild
BuildFrame ==
    UNCHANGED <<ctxVars, found, heap, store, session, outcome, runs, entry,
                reload, prev, got>>

\* history of add_task: the first task ever added
NoteAdded(task_id) ==
    IF hist.first = Absent THEN [hist EXCEPT !.first = task_id] ELSE hist

\* history of set_start_task: the last call that named a registered task
NoteChosen(task_id) ==
    IF task_id \in graph.tasks THEN [hist EXCEPT !.chosen = task_id] ELSE hist

\* GraphBuilder::add_task
BuilderAddTask ==
    \E t \in Tasks :
        /\ pc = "building"
        /\ graph' = Graph_add_task(graph, t)
        /\ hist' = NoteAdded(t)
        /\ UNCHANGED pc
        /\ BuildFrame

\* GraphBuilder::set_start_task
BuilderSetStartTask ==
    \E t \in TaskIds :
        /\ pc = "building"
        /\ graph' = Graph_set_start_task(graph, t)
        /\ hist' = NoteChosen(t)
        /\ UNCHANGED pc
        /\ BuildFrame

\* GraphBuilder::add_edge
BuilderAddEdge ==
    \E f \in Tasks, t \in TaskIds :
        /\ pc = "building"
        /\ Len(graph.edges) < MaxGraphEdges
        /\ graph' = Graph_add_edge(graph, f, t)
        /\ UNCHANGED <<pc, hist>>
        /\ BuildFrame

\* GraphBuilder::add_conditional_edge
BuilderAddConditionalEdge ==
    \E f \in Tasks, t \in TaskIds, c \in EngineConditions \ {NoCondition} :
        /\ pc = "building"
        /\ Len(graph.edges) < MaxGraphEdges
        /\ graph' = Graph_add_conditional_edge(graph, f, t, c)
        /\ UNCHANGED <<pc, hist>>
        /\ BuildFrame

\* GraphBuilder::build: the builder gives up the Graph it holds
Build ==
    /\ pc = "building"
    /\ pc' = "built"
    /\ hist' = [hist EXCEPT !.built = graph]
    /\ UNCHANGED graph
    /\ BuildFrame

\* Graph::add_task on the built Graph: a pub method on &self
GraphAddTask ==
    \E t \in Tasks :
        /\ pc = "built"
        /\ graph' = Graph_add_task(graph, t)
        /\ hist' = NoteAdded(t)
        /\ UNCHANGED pc
        /\ BuildFrame

\* Graph::set_start_task on the built Graph
GraphSetStartTask ==
    \E t \in TaskIds :
        /\ pc = "built"
        /\ graph' = Graph_set_start_task(graph, t)
        /\ hist' = NoteChosen(t)
        /\ UNCHANGED pc
        /\ BuildFrame

\* Graph::add_edge on the built Graph
GraphAddEdge ==
    \E f \in Tasks, t \in TaskIds :
        /\ pc = "built"
        /\ Len(graph.edges) < MaxGraphEdges
        /\ graph' = Graph_add_edge(graph, f, t)
        /\ UNCHANGED <<pc, hist>>
        /\ BuildFrame

\* Graph::add_conditional_edge on the built Graph
GraphAddConditionalEdge ==
    \E f \in Tasks, t \in TaskIds, c \in EngineConditions \ {NoCondition} :
        /\ pc = "built"
        /\ Len(graph.edges) < MaxGraphEdges
        /\ graph' = Graph_add_conditional_edge(graph, f, t, c)
        /\ UNCHANGED <<pc, hist>>
        /\ BuildFrame

NextBuild ==
    \/ BuilderAddTask
    \/ BuilderSetStartTask
    \/ BuilderAddEdge
    \/ BuilderAddConditionalEdge
    \/ Build
    \/ GraphAddTask
    \/ GraphSetStartTask
    \/ GraphAddEdge
    \/ GraphAddConditionalEdge

SpecBuild == InitBuild /\ [][NextBuild]_vars

\* C25: start_task_id() is absent exactly when no task was added; otherwise
\* it names a registered task: the target of the last set_start_task call
\* that named a registered task, or the first task added when there was none.
C25_StartTaskRegistered ==
    /\ Graph_start_task_id(graph) = Absent <=> graph.tasks = {}
    /\ graph.tasks = {} <=> hist.first = Absent
    /\ Graph_start_task_id(graph) # Absent =>
          /\ Graph_start_task_id(graph) \in graph.tasks
          /\ Graph_start_task_id(graph) =
                IF hist.chosen # Absent THEN hist.chosen ELSE hist.first

\* A was added first and B after it with no set_start_task call, and the
\* start task is A
C25_Witness ==
    /\ graph.tasks = {"A", "B"}
    /\ hist.first = "A"
    /\ hist.chosen = Absent
    /\ Graph_start_task_id(graph) = "A"

\* C26: once build() has produced the Graph, its tasks, edges and start task
\* stay as they were at build under every operation the Graph offers.
C26_BuiltGraphImmutable ==
    pc = "built" => graph = hist.built

----------------------------------------------------------------------------
(* SpecPar: two concurrent FlowRunner::run calls (one per request handler) *)
(* over two sessions of one graph A -> B.  pc, session and runs hold one   *)
(* entry per call; a task run is two steps, its start and its return, and  *)
(* the return includes the match on the action, which has no await in it.  *)

Procs == {1, 2}

\* the tasks of SpecPar: no failure and no response, and one of three actions
ParBehaviours ==
    {b \in Behaviours :
        /\ ~b.fails
        /\ ~b.responds
        /\ b.action.kind \in {"Continue", "ContinueAndExecute", "End"}}

InitPar ==
    /\ ctx = Context_new
    /\ clock = 0
    /\ added = <<>>
    /\ wire = Null
    /\ snap = Null
    /\ restored = Null
    /\ graph = [tasks |-> Tasks, edges |-> <<Edge("A", "B", NoCondition)>>,
                start_task_id |-> "A"]
    /\ found = Null
    /\ heap = EmptyHeap
    /\ store = [sid \in StoreIds |-> Null]
    /\ session = [p \in Procs |-> Null]
    /\ pc = [p \in Procs |-> "idle"]
    /\ outcome = Null
    /\ runs = [p \in Procs |-> <<>>]
    /\ entry = Null
    /\ reload = Null
    /\ prev = Null
    /\ hist = [saved |-> [sid \in StoreIds |-> Null], calls |-> [p \in Procs |-> 0]]
    /\ got = [p \in Procs |-> Absent]

\* the frame of every step of SpecPar
ParFrame == UNCHANGED <<ctxVars, found, outcome, entry, reload, prev>>

\* the host creates a session at the start task and saves it
ParCreateSession ==
    \E sid \in StoreIds :
        /\ store[sid] = Null
        /\ FreeRefs(heap) # {}
        /\ heap' = [heap EXCEPT ![NewRef(heap)] = Context_new]
        /\ store' = InMemorySessionStorage_save(store,
                        Session_new_from_task(sid, graph.start_task_id, NewRef(heap)))
        /\ UNCHANGED <<graph, session, pc, runs, hist, got>>
        /\ ParFrame

\* FlowRunner::run, 1. Load session (a run on a missing id returns
\* SessionNotFound and changes nothing)
ParLoad(p) ==
    \E sid \in StoreIds :
        /\ pc[p] = "idle"
        /\ hist.calls[p] < MaxCalls
        /\ InMemorySessionStorage_get(store, sid) # Null
        /\ session' = [session EXCEPT ![p] = InMemorySessionStorage_get(store, sid)]
        /\ runs' = [runs EXCEPT ![p] = <<>>]
        /\ pc' = [pc EXCEPT ![p] = "exec"]
        /\ hist' = [hist EXCEPT !.calls[p] = @ + 1]
        /\ UNCHANGED <<graph, heap, store, got>>
        /\ ParFrame

\* a task run that starts while the previous run of the call is still going
ParTaskBeginOverlapping(p) ==
    /\ pc[p] \in {"exec", "running"}
    /\ Len(runs[p]) < MaxChain
    /\ runs' = [runs EXCEPT ![p] =
                   Append(@, [task |-> session[p].current_task_id, phase |-> "running"])]
    /\ pc' = [pc EXCEPT ![p] = "running"]
    /\ got' = [got EXCEPT ![p] = session[p].current_task_id]
    /\ UNCHANGED <<graph, heap, store, session, hist>>
    /\ ParFrame

\* execute_session, in execute_single_task: self.tasks.get(task_id) returns
\* a guard on the map entry, which `task` keeps to the end of the function,
\* and task.run(context) is called and awaited
ParTaskBegin(p) ==
    /\ pc[p] = "exec"
    /\ runs' = [runs EXCEPT ![p] =
                   Append(@, [task |-> session[p].current_task_id, phase |-> "running"])]
    /\ pc' = [pc EXCEPT ![p] = "running"]
    /\ got' = [got EXCEPT ![p] = session[p].current_task_id]
    /\ UNCHANGED <<graph, heap, store, session, hist>>
    /\ ParFrame

\* execute_session: the run returns, and the match on its action sets the
\* session and either returns or calls execute_session for the next task
ParTaskEnd(p) ==
    \E b \in ParBehaviours :
        /\ pc[p] = "running"
        /\ LET s == session[p]
               single == execute_single_task(graph, s.current_task_id, heap[s.context], b)
               heap1 == [heap EXCEPT ![Context_clone(heap, s.context)] = single.ctx]
               step == MatchNextAction(graph, s, heap1[s.context], single.result)
           IN  /\ heap' = heap1
               /\ session' = [session EXCEPT ![p] = step.session]
               /\ runs' = [runs EXCEPT ![p][Len(runs[p])].phase = "resolved"]
               /\ pc' = [pc EXCEPT ![p] =
                            IF step.kind = "Recurse" THEN "exec" ELSE "save"]
        /\ got' = [got EXCEPT ![p] = Absent]
        /\ UNCHANGED <<graph, store, hist>>
        /\ ParFrame

\* a save that gives way when the stored session changed since the load
ParSaveFirstWins(p) ==
    /\ pc[p] = "save"
    /\ store' = IF store[session[p].id].current_task_id = runs[p][1].task
                THEN InMemorySessionStorage_save(store, session[p])
                ELSE store
    /\ hist' = [hist EXCEPT !.saved[session[p].id] = session[p]]
    /\ pc' = [pc EXCEPT ![p] = "idle"]
    /\ UNCHANGED <<graph, heap, session, runs, got>>
    /\ ParFrame

\* FlowRunner::run, 3. storage.save(session), Ok(result)
ParSave(p) ==
    /\ pc[p] = "save"
    /\ store' = InMemorySessionStorage_save(store, session[p])
    /\ hist' = [hist EXCEPT !.saved[session[p].id] = session[p]]
    /\ pc' = [pc EXCEPT ![p] = "idle"]
    /\ UNCHANGED <<graph, heap, session, runs, got>>
    /\ ParFrame

\* whether an insert of task_id into the task registry can take the write
\* lock of its shard: no entry guard is out on the shard, which holds the
\* guarded key always and another key when the two hash to one shard
ShardFree(task_id, colliding) ==
    \A q \in Procs : got[q] = Absent \/ (got[q] # task_id /\ ~colliding)

\* Graph::add_task on the graph the calls share, from another handler: the
\* insert waits for the shard's write lock
ParGraphAddTask ==
    \E task_id \in TaskIds, colliding \in BOOLEAN :
        /\ ShardFree(task_id, colliding)
        /\ graph' = Graph_add_task(graph, task_id)
        /\ UNCHANGED <<heap, store, session, pc, runs, hist, got>>
        /\ ParFrame

NextPar ==
    \/ ParCreateSession
    \/ ParGraphAddTask
    \/ \E p \in Procs : ParLoad(p)
    \/ \E p \in Procs : ParTaskBegin(p)
    \/ \E p \in Procs : ParTaskEnd(p)
    \/ \E p \in Procs : ParSave(p)

SpecPar == InitPar /\ [][NextPar]_vars

\* C22: run takes no lock on the session id: two calls on one id can both
\* load the same current_task_id and both run that task, and the stored
\* session then has the current_task_id and status_message of the call
\* that saved last.
C22_LastWriterWins ==
    \A sid \in StoreIds :
        hist.saved[sid] # Null =>
            /\ store[sid] # Null
            /\ store[sid].current_task_id = hist.saved[sid].current_task_id
            /\ store[sid].status_message = hist.saved[sid].status_message

\* both calls ran A for session s1 and have returned; call 1 moved its
\* session to B, call 2 left its own at A, and storage holds call 2's: call
\* 2 loaded before call 1 saved and saved after it
C22_Witness ==
    /\ pc[1] = "idle"
    /\ pc[2] = "idle"
    /\ hist.calls[1] = 1
    /\ hist.calls[2] = 1
    /\ session[1].id = "s1"
    /\ session[2].id = "s1"
    /\ runs[1][1].task = "A"
    /\ runs[2][1].task = "A"
    /\ session[1].current_task_id = "B"
    /\ session[2].current_task_id = "A"
    /\ session[1].status_message # session[2].status_message
    /\ store["s1"].current_task_id = "A"
    /\ store["s1"].status_message = session[2].status_message

\* call p takes the step
Stepped(p) == pc'[p] # pc[p]

\* C23: a step of a call on one session leaves every other stored session
\* as it is: its current_task_id, its status_message and the data and chat
\* history of its Context.
C23_SessionsIndependent ==
    [][\A sid \in StoreIds :
          (/\ store[sid] # Null
           /\ \A p \in Procs : Stepped(p) => session'[p].id # sid)
             => /\ store'[sid] = store[sid]
                /\ heap'[store[sid].context] = heap[store[sid].context]]_vars

\* call 1 stepped s1 to B and its task wrote to the Context of s1, while s2
\* is as it was created, with a Context of its own that holds nothing
C23_Witness ==
    /\ pc[1] = "idle"
    /\ hist.calls[1] = 1
    /\ session[1].id = "s1"
    /\ store["s1"] # Null
    /\ store["s2"] # Null
    /\ store["s1"].current_task_id = "B"
    /\ store["s1"].status_message # Null
    /\ heap[store["s1"].context].data["A"] = "v1"
    /\ store["s2"] = Session_new_from_task("s2", "A", store["s2"].context)
    /\ store["s2"].context # store["s1"].context
    /\ heap[store["s2"].context] = Context_new

\* C27: in one call the task runs of a chain do not overlap: a run starts
\* only when the run before it has returned and its next task is resolved,
\* and it is the task that resolution gave.
C27_ChainRunsSequential ==
    \A p \in Procs :
        /\ \A i \in 1..(Len(runs[p]) - 1) :
              /\ runs[p][i].phase = "resolved"
              /\ runs[p][i + 1].task =
                    FirstMatch(graph.edges, runs[p][i].task, heap[session[p].context])
        /\ runs[p] # <<>> =>
              (runs[p][Len(runs[p])].phase = "running" <=> pc[p] = "running")
        /\ pc[p] = "running" => runs[p] # <<>>

\* call 1 is running B, the second task of its chain, after A returned
\* ContinueAndExecute, while call 2 is running a task too
C27_Witness ==
    /\ pc[1] = "running"
    /\ Len(runs[1]) = 2
    /\ runs[1][1] = [task |-> "A", phase |-> "resolved"]
    /\ runs[1][2] = [task |-> "B", phase |-> "running"]
    /\ pc[2] = "running"

\* C33: while a task's run is in progress inside execute_session the engine
\* holds no lock or map guard on the task registry, so that an add_task on
\* the shared graph is never kept waiting for the duration of a task run.
C33_NoGuardAcrossRun ==
    \A p \in Procs :
        pc[p] = "running" =>
            /\ got[p] = Absent
            /\ \A task_id \in TaskIds, colliding \in BOOLEAN :
                  ShardFree(task_id, colliding)

----------------------------------------------------------------------------
(* SpecSer: one Context that is serialized by one handler while others     *)
(* write to it.  Context::serialize is two reads: it collects self.data    *)
(* into a map, and then takes the chat_history read lock and clones the    *)
(* history; pc is where the serializer is.  hist holds every state the     *)
(* Context had from the first read on.                                     *)

SerRoles == {"User"}

InitSer ==
    /\ ctx \in {Context_new, Context_with_max_chat_messages(MaxBound)}
    /\ clock = 0
    /\ added = <<>>
    /\ wire = Null
    /\ snap = Null
    /\ restored = Null
    /\ graph = EmptyGraph
    /\ found = Null
    /\ heap = <<>>
    /\ store = Null
    /\ session = Null
    /\ pc = "idle"
    /\ outcome = Null
    /\ runs = <<>>
    /\ entry = Null
    /\ reload = Null
    /\ prev = Null
    /\ hist = {}
    /\ got = Null

\* the frame of every step of SpecSer
SerFrame == UNCHANGED <<added, snap, restored, graph, found, heap, store, session,
                       outcome, runs, entry, reload, prev, got>>

\* the states of the Context a serialization in progress has overlapped
Overlapped(c) == IF pc = "history" THEN hist \cup {c} ELSE hist

\* serialize, first read: self.data.iter() collected into a HashMap
SerCollectData ==
    /\ pc \in {"idle", "done"}
    /\ wire' = [data |-> Context_serialize(ctx).data, chat_history |-> Null]
    /\ hist' = {ctx}
    /\ pc' = "history"
    /\ UNCHANGED <<ctx, clock>>
    /\ SerFrame

\* serialize, second read: self.chat_history.read() cloned, and the
\* ContextData of the two reads is written out
SerReadHistory ==
    /\ pc = "history"
    /\ wire' = [wire EXCEPT !.chat_history = Context_serialize(ctx).chat_history]
    /\ pc' = "done"
    /\ UNCHANGED <<ctx, clock, hist>>
    /\ SerFrame

\* another handler: context.set(key, value)
SerSet ==
    \E v \in Vals :
        /\ pc \in {"idle", "history"}
        /\ ctx' = Context_set(ctx, InputKey, v)
        /\ hist' = Overlapped(ctx')
        /\ UNCHANGED <<clock, wire, pc>>
        /\ SerFrame

\* another handler: context.add_user_message(content)
SerAddMessage ==
    \E role \in SerRoles, content \in Contents :
        /\ pc \in {"idle", "history"}
        /\ clock < MaxAdds
        /\ ctx' = Context_add_message(ctx, role, content, clock)
        /\ clock' = clock + 1
        /\ hist' = Overlapped(ctx')
        /\ UNCHANGED <<wire, pc>>
        /\ SerFrame

NextSer ==
    \/ SerCollectData
    \/ SerReadHistory
    \/ SerSet
    \/ SerAddMessage

SpecSer == InitSer /\ [][NextSer]_vars

\* C37: a serialization of a Context that runs while set / add_*_message
\* calls are made on it produces a value that equals the state (data and
\* chat history together) the Context had at one instant during the
\* serialization.
C37_SerializationIsASnapshot ==
    pc = "done" => \E c \in hist : wire = Context_serialize(c)

----------------------------------------------------------------------------
(* SpecExec: a caller that holds a Context and calls                       *)
(* Graph::execute(task_id, context.clone()).  execute runs the task and    *)
(* follows Continue and GoTo by calling itself; one step of SpecExec is    *)
(* one level of that recursion.  entry is the (task_id, context) of the    *)
(* level that runs next, with the task the caller named (history), runs    *)
(* the levels that have run.                                               *)

\* the handle of the caller's Context
CallerContext == NewRef(EmptyHeap)

ExecOk(result) == [kind |-> "Ok", result |-> result, error |-> Null, next |-> Absent]

ExecErr(error) == [kind |-> "Err", result |-> Null, error |-> error, next |-> Absent]

ExecRecurse(next) == [kind |-> "Recurse", result |-> Null, error |-> Null, next |-> next]

\* a Continue arm that follows the edge whether or not the task responded
ExecuteOnContinueThrough(g, task_id, c, r) ==
    LET next == find_next_task(g.edges, task_id, c)
    IN  IF next # Absent THEN ExecRecurse(next) ELSE ExecOk(r)

\* Graph::execute, NextAction::Continue
ExecuteOnContinue(g, task_id, c, r) ==
    IF r.response # Null THEN ExecOk(r)
    ELSE LET next == find_next_task(g.edges, task_id, c)
         IN  IF next # Absent THEN ExecRecurse(next) ELSE ExecOk(r)

\* Graph::execute, NextAction::GoTo(target_id)
ExecuteOnGoTo(g, task_id, c, r) ==
    IF r.next_action.target \in g.tasks
    THEN ExecRecurse(r.next_action.target)
    ELSE ExecErr([kind |-> "TaskNotFound", id |-> r.next_action.target])

\* Graph::execute, match &result.next_action; c is the Context after the run
ExecuteMatch(g, task_id, c, r) ==
    CASE r.next_action.kind = "Continue" -> ExecuteOnContinue(g, task_id, c, r)
      [] r.next_action.kind = "GoTo" -> ExecuteOnGoTo(g, task_id, c, r)
      [] OTHER -> ExecOk(r)

InitExec ==
    /\ ctx = Context_new
    /\ clock = 0
    /\ added = <<>>
    /\ wire = Null
    /\ snap = Null
    /\ restored = Null
    /\ found = Null
    /\ \E es \in SeqsUpTo(EdgesOver(TaskIds, EngineConditions), MaxGraphEdges) :
          graph = [tasks |-> Tasks, edges |-> es, start_task_id |-> "A"]
    /\ heap = [EmptyHeap EXCEPT ![CallerContext] = Context_new]
    /\ store = Null
    /\ session = Null
    /\ pc = "idle"
    /\ outcome = Null
    /\ runs = <<>>
    /\ entry = Null
    /\ reload = Null
    /\ prev = Null
    /\ hist = Null
    /\ got = Null

\* the frame of every step of SpecExec
ExecFrame == UNCHANGED <<ctxVars, graph, found, store, session, reload, prev, hist, got>>

\* the caller: graph.execute(task_id, context.clone())
ExecCall ==
    \E task_id \in TaskIds :
        /\ pc \in {"idle", "done"}
        /\ entry' = [task_id |-> task_id, named |-> task_id,
                     context |-> Context_clone(heap, CallerContext)]
        /\ runs' = <<>>
        /\ outcome' = Null
        /\ pc' = "exec"
        /\ UNCHANGED heap
        /\ ExecFrame

\* one level of Graph::execute: the lookup, task.run(context.clone()), the
\* stamp of result.task_id and the match
ExecLevel ==
    \E b \in Behaviours :
        /\ pc = "exec"
        /\ Len(runs) < MaxChain
        /\ LET task_id == entry.task_id
               handle == Context_clone(heap, entry.context)
               single == execute_single_task(graph, task_id, heap[entry.context], b)
               heap1 == [heap EXCEPT ![handle] = single.ctx]
               level == IF single.ok
                        THEN ExecuteMatch(graph, task_id, heap1[entry.context],
                                          single.result)
                        ELSE ExecErr(single.error)
           IN  /\ heap' = heap1
               /\ runs' = IF task_id \in graph.tasks
                          THEN Append(runs, [task |-> task_id,
                                             saw |-> heap[entry.context].data,
                                             wrote |-> b.write,
                                             action |-> b.action.kind,
                                             target |-> b.action.target,
                                             responded |-> b.responds])
                          ELSE runs
               /\ IF level.kind = "Recurse"
                  THEN /\ entry' = [entry EXCEPT !.task_id = level.next]
                       /\ pc' = "exec"
                       /\ outcome' = outcome
                  ELSE /\ entry' = entry
                       /\ pc' = "done"
                       /\ outcome' = [ok |-> level.kind = "Ok",
                                      result |-> level.result,
                                      error |-> level.error]
        /\ ExecFrame

NextExec ==
    \/ ExecCall
    \/ ExecLevel

SpecExec == InitExec /\ [][NextExec]_vars

\* what the caller reads from its Context
CallerData == heap[CallerContext].data

\* C39: Graph::execute(task_id, context) runs the named task on the caller's
\* Context, whose writes the caller sees afterwards, and follows transitions
\* in the same call: it goes on to the edge-resolved next task only after
\* Continue with no response when an edge matches, and to the target after
\* GoTo of a registered task; in every other case it returns the result of
\* the task it ran without running another.
C39_ExecuteFollowsTransitions ==
    /\ runs # <<>> => runs[1].task = entry.named
    /\ \A j \in 1..Len(runs) : runs[j].saw = DataAfterRuns(runs[1].saw, j - 1)
    /\ runs # <<>> => CallerData = DataAfterRuns(runs[1].saw, Len(runs))
    /\ \A i \in 1..(Len(runs) - 1) :
          \/ /\ runs[i].action = "Continue"
             /\ ~runs[i].responded
             /\ runs[i + 1].task =
                   FirstMatch(graph.edges, runs[i].task,
                              WithData(heap[CallerContext], runs[i + 1].saw))
          \/ /\ runs[i].action = "GoTo"
             /\ runs[i].target \in graph.tasks
             /\ runs[i + 1].task = runs[i].target
    /\ (pc = "done" /\ outcome.ok) =>
          /\ runs # <<>>
          /\ \/ LastRun.action \in {"End", "WaitForInput", "GoBack", "ContinueAndExecute"}
             \/ LastRun.action = "Continue" /\ LastRun.responded
             \/ /\ LastRun.action = "Continue"
                /\ FirstMatch(graph.edges, LastRun.task, heap[CallerContext]) = Absent
          /\ outcome.result.task_id = LastRun.task
          /\ outcome.result.next_action.kind = LastRun.action
          /\ outcome.result.response # Null <=> LastRun.responded
          /\ outcome.result.response # Null => outcome.result.response.by = LastRun.task
    /\ (pc = "exec" /\ runs # <<>>) =>
          \/ /\ LastRun.action = "Continue"
             /\ ~LastRun.responded
             /\ entry.task_id =
                   FirstMatch(graph.edges, LastRun.task, heap[CallerContext])
          \/ LastRun.action = "GoTo" /\ entry.task_id = LastRun.target

\* execute("A") ran A, which wrote A = v1 and returned Continue with no
\* response, went on to B over the edge from A, and returned the result
\* of B, which returned ContinueAndExecute; the caller reads A = v1
C39_Witness ==
    /\ pc = "done"
    /\ outcome.ok
    /\ Len(runs) = 2
    /\ runs[1].task = "A"
    /\ runs[1].action = "Continue"
    /\ ~runs[1].responded
    /\ runs[1].saw["A"] = Absent
    /\ runs[1].wrote = "v1"
    /\ runs[2].task = "B"
    /\ runs[2].action = "ContinueAndExecute"
    /\ entry.named = "A"
    /\ outcome.result.task_id = "B"
    /\ CallerData["A"] = "v1"

----------------------------------------------------------------------------
(* SpecRec: the recommendation service.  Its handler creates a session at  *)
(* QueryRefinementTask with the user's query in the Context and loops:     *)
(* get the session, execute_session, save, until the status is Completed.  *)
(* The graph is refine -> search -> answer -> validate, and from validate  *)
(* to delivery when validation_passed holds and back to answer otherwise.  *)
(* ctx is the Context of the session the loop holds, clock its Utc::now(), *)
(* runs the task runs of the request with the retry_count each one read.   *)

MaxRetries == 3

RecMaxChat == 50

RecKeys ==
    {"user_query", "refined_query", "retrieved_context", "retry_count", "answer",
     "validation_passed"}

\* the values of the Context data: serde_json values, Null where no entry is
JsonString(s) == [string |-> s]

JsonNumber(n) == [number |-> n]

JsonBool(b) == [bool |-> b]

\* get_sync::<T>(k) is Some
Holds(c, k, T) == T \in DOMAIN c.data[k]

\* what the services a task calls answer in one run: whether the call (LLM,
\* embedding, database) fails, the text it returns, and for the validator
\* the `passed` of its reply and whether the reply carries a comment
Replies == [fails : BOOLEAN, text : Vals, passed : BOOLEAN, comment : BOOLEAN]

RecFailed(c, now, reason) ==
    [ok |-> FALSE, ctx |-> c, now |-> now, result |-> Null, verdict |-> reason,
     error |-> [kind |-> "TaskExecutionFailed", id |-> reason]]

RecDone(c, now, response, kind, verdict) ==
    [ok |-> TRUE, ctx |-> c, now |-> now, verdict |-> verdict, error |-> Null,
     result |-> TaskResult(response, NextAction(kind, ""), Null)]

\* a validation that asks for another attempt whatever the retry_count is
RecValidationRunUnbounded(c, now, reply) ==
    LET retry_count == c.data["retry_count"].number
        c1 == Context_set(c, "validation_passed", JsonBool(reply.passed))
    IN  IF reply.fails THEN RecFailed(c, now, "validator call failed")
        ELSE IF reply.passed THEN RecDone(c1, now, Null, "ContinueAndExecute", "passed")
        ELSE RecDone(Context_set(Context_add_message(c1, "User", "feedback", now),
                                 "retry_count", JsonNumber(retry_count + 1)),
                     now + 1, Null, "ContinueAndExecute", "retry")

\* ValidationTask::run
RecValidationRun(c, now, reply) ==
    IF ~Holds(c, "answer", "string") THEN RecFailed(c, now, "answer not found")
    ELSE IF ~Holds(c, "user_query", "string") THEN RecFailed(c, now, "user_query not found")
    ELSE IF ~Holds(c, "retry_count", "number") THEN RecFailed(c, now, "retry_count not found")
    ELSE IF reply.fails THEN RecFailed(c, now, "validator call failed")
    ELSE LET retry_count == c.data["retry_count"].number
             c1 == Context_set(c, "validation_passed", JsonBool(reply.passed))
         IN  IF reply.passed
             THEN RecDone(c1, now, Null, "ContinueAndExecute", "passed")
             ELSE IF ~reply.comment THEN RecFailed(c1, now, "no validation comment")
             ELSE IF retry_count >= MaxRetries
             THEN RecFailed(c1, now, "maximum retry attempts exceeded")
             ELSE RecDone(Context_set(Context_add_message(c1, "User", "feedback", now),
                                      "retry_count", JsonNumber(retry_count + 1)),
                          now + 1, Null, "ContinueAndExecute", "retry")

\* Task::run of the five tasks of the workflow
RecRun(task_id, c, now, reply) ==
    CASE task_id = "QueryRefinementTask" ->
           IF ~Holds(c, "user_query", "string")
           THEN RecFailed(c, now, "user_query not found")
           ELSE IF reply.fails THEN RecFailed(c, now, "call failed")
           ELSE RecDone(Context_set(Context_set(c, "refined_query", JsonString(reply.text)),
                                    "retry_count", JsonNumber(0)),
                        now, Null, "ContinueAndExecute", "ok")
      [] task_id = "VectorSearchTask" ->
           IF ~Holds(c, "refined_query", "string")
           THEN RecFailed(c, now, "refined_query not found")
           ELSE IF reply.fails THEN RecFailed(c, now, "call failed")
           ELSE RecDone(Context_set(c, "retrieved_context", JsonString(reply.text)),
                        now, Null, "Continue", "ok")
      [] task_id = "AnswerGenerationTask" ->
           IF ~Holds(c, "user_query", "string")
           THEN RecFailed(c, now, "user_query not found")
           ELSE IF ~Holds(c, "retrieved_context", "string")
           THEN RecFailed(c, now, "retrieved_context not found")
           ELSE IF ~Holds(c, "retry_count", "number")
           THEN RecFailed(c, now, "retry_count not found")
           ELSE IF reply.fails THEN RecFailed(c, now, "call failed")
           ELSE RecDone(Context_set(
                            Context_add_message(
                                Context_add_message(c, "User", "prompt", now),
                                "Assistant", reply.text, now + 1),
                            "answer", JsonString(reply.text)),
                        now + 2, reply.text, "ContinueAndExecute", "ok")
      [] task_id = "ValidationTask" -> RecValidationRun(c, now, reply)
      [] task_id = "DeliveryTask" ->
           IF ~Holds(c, "answer", "string") THEN RecFailed(c, now, "answer not found")
           ELSE IF ~Holds(c, "retry_count", "number")
           THEN RecFailed(c, now, "retry_count not found")
           ELSE RecDone(c, now, c.data["answer"].string, "End", "ok")

\* GraphBuilder::add_conditional_edge(from, condition, yes, no): the edge to
\* `yes` under the condition, then the edge to `no` for when it does not hold
Graph_add_conditional_edge_or(g, from, condition, yes, no) ==
    Graph_add_edge(Graph_add_conditional_edge(g, from, yes, condition), from, no)

\* setup_graph
RecGraph ==
    LET t1 == Graph_add_task(Graph_new, "QueryRefinementTask")
        t2 == Graph_add_task(t1, "VectorSearchTask")
        t3 == Graph_add_task(t2, "AnswerGenerationTask")
        t4 == Graph_add_task(t3, "ValidationTask")
        t5 == Graph_add_task(t4, "DeliveryTask")
        e1 == Graph_add_edge(t5, "QueryRefinementTask", "VectorSearchTask")
        e2 == Graph_add_edge(e1, "VectorSearchTask", "AnswerGenerationTask")
        e3 == Graph_add_edge(e2, "AnswerGenerationTask", "ValidationTask")
    IN  Graph_add_conditional_edge_or(e3, "ValidationTask",
            Condition("validation_passed", JsonBool(TRUE)),
            "DeliveryTask", "AnswerGenerationTask")

\* what session_storage.get returns after save(s) of a session whose Context
\* is c: the session with the Context deserialized from its context_json
RecStored(s, c) ==
    LET context_json ==
            [data |-> {<<k, c.data[k]>> : k \in {x \in RecKeys : c.data[x] # Null}},
             chat_history |-> JsonOfHistory(c.chat_history)]
    IN  [session |-> s,
         context |->
            [data |-> [k \in RecKeys |->
                         IF \E p \in context_json.data : p[1] = k
                         THEN (CHOOSE p \in context_json.data : p[1] = k)[2]
                         ELSE Null],
             chat_history |-> HistoryOfJson(context_json.chat_history)]]

\* Context::with_max_chat_messages(50)
RecContext == [data |-> [k \in RecKeys |-> Null],
               chat_history |-> ChatHistory_with_max_messages(RecMaxChat)]

InitRec ==
    /\ ctx = RecContext
    /\ clock = 0
    /\ added = <<>>
    /\ wire = Null
    /\ snap = Null
    /\ restored = Null
    /\ graph = RecGraph
    /\ found = Null
    /\ heap = <<>>
    /\ store = Null
    /\ session = Null
    /\ pc = "idle"
    /\ outcome = Null
    /\ runs = <<>>
    /\ entry = Null
    /\ reload = Null
    /\ prev = Null
    /\ hist = Null
    /\ got = Null

\* the frame of every step of SpecRec
RecFrame == UNCHANGED <<added, wire, snap, restored, graph, found, heap, entry,
                       reload, prev, hist, got>>

\* the handler up to its loop: a Context bounded at 50 messages with the
\* user's query, the session at QueryRefinementTask, its save, and the first
\* get of the loop
RecCreate ==
    \E query \in Tags :
        /\ pc \in {"idle", "done", "failed"}
        /\ LET context == Context_set(RecContext, "user_query", JsonString(query))
               created == [Session_new_from_task("s1", "QueryRefinementTask",
                                                 CallerContext)
                             EXCEPT !.graph_id = "recommendation_flow"]
           IN  /\ store' = RecStored(created, context)
               /\ session' = store'.session
               /\ ctx' = store'.context
        /\ clock' = 0
        /\ runs' = <<>>
        /\ outcome' = Null
        /\ pc' = "exec"
        /\ RecFrame

\* one level of graph.execute_session(&mut current_session); an error ends
\* the request
RecStep ==
    \E reply \in Replies :
        /\ pc = "exec"
        /\ LET task_id == session.current_task_id
               run == RecRun(task_id, ctx, clock, reply)
               step == IF run.ok
                       THEN MatchNextAction(graph, session, run.ctx,
                                            [run.result EXCEPT !.task_id = task_id])
                       ELSE Raises(session, run.error)
           IN  /\ task_id \in graph.tasks
               /\ ctx' = run.ctx
               /\ clock' = run.now
               /\ session' = step.session
               /\ runs' = Append(runs, [task |-> task_id,
                                        retry |-> ctx.data["retry_count"],
                                        verdict |-> run.verdict])
               /\ CASE step.kind = "Recurse" ->
                         /\ pc' = "exec"
                         /\ outcome' = outcome
                    [] step.kind = "Ok" ->
                         /\ pc' = "save"
                         /\ outcome' = [ok |-> TRUE, result |-> step.result,
                                        error |-> Null]
                    [] step.kind = "Err" ->
                         /\ pc' = "failed"
                         /\ outcome' = [ok |-> FALSE, result |-> Null,
                                        error |-> step.error]
        /\ UNCHANGED store
        /\ RecFrame

\* the rest of the loop body: the save, which may fail and end the request,
\* the match on the status, and on WaitingForInput the get of the next turn
RecSave ==
    \E saved \in BOOLEAN :
        /\ pc = "save"
        /\ IF ~saved
           THEN /\ pc' = "failed"
                /\ outcome' = [ok |-> FALSE, result |-> Null,
                               error |-> [kind |-> "StorageError", id |-> session.id]]
                /\ UNCHANGED <<store, session, ctx>>
           ELSE /\ store' = RecStored(session, ctx)
                /\ outcome' = outcome
                /\ IF outcome.result.status = "Completed"
                   THEN pc' = "done" /\ UNCHANGED <<session, ctx>>
                   ELSE /\ pc' = "exec"
                        /\ session' = store'.session
                        /\ ctx' = store'.context
        /\ UNCHANGED <<clock, runs>>
        /\ RecFrame

NextRec ==
    \/ RecCreate
    \/ RecStep
    \/ RecSave

\* the handler is an async function the runtime keeps polling: a request
\* that can take its next step takes it
SpecRec == InitRec /\ [][NextRec]_vars /\ WF_vars(RecStep) /\ WF_vars(RecSave)

\* the runs of the request, so far, of the task task_id
RunsOf(task_id) == {i \in 1..Len(runs) : runs[i].task = task_id}

\* the validation runs, so far, that asked for another attempt
Retries == {i \in RunsOf("ValidationTask") : runs[i].verdict = "retry"}

\* the request ended on a validation whose validator answered passed = false
EndedOnFailedValidation ==
    /\ pc = "failed"
    /\ LastRun.task = "ValidationTask"
    /\ LastRun.verdict \in {"no validation comment", "maximum retry attempts exceeded"}

----------------------------------------------------------------------------
(* SpecLoop: execute_session calls on graphs whose tasks each return one   *)
(* fixed action and write nothing, so that the edges that match are the    *)
(* same throughout a call.  hist holds the action of each task; runs holds *)
(* the first MaxChain + 1 task runs of the call and no more, so that a     *)
(* call that goes round a cycle is a finite set of states.                 *)

LoopActions ==
    {NextAction(k, "") : k \in {"ContinueAndExecute", "Continue", "End"}}
    \cup {NextAction("GoTo", "A")}

InitLoop ==
    /\ ctx \in {Context_new, Context_set(Context_new, "A", "v1")}
    /\ clock = 0
    /\ added = <<>>
    /\ wire = Null
    /\ snap = Null
    /\ restored = Null
    /\ found = Null
    /\ \E es \in SeqsUpTo(EdgesOver(TaskIds, EngineConditions), MaxGraphEdges + 1) :
          graph = [tasks |-> Tasks, edges |-> es, start_task_id |-> "A"]
    /\ heap = <<>>
    /\ store = Null
    /\ session = Null
    /\ pc = "idle"
    /\ outcome = Null
    /\ runs = <<>>
    /\ entry = Null
    /\ reload = Null
    /\ prev = Null
    /\ hist \in [Tasks -> LoopActions]
    /\ got = Null

\* the frame of every step of SpecLoop
LoopFrame == UNCHANGED <<ctxVars, graph, found, heap, store, entry, reload, prev,
                        hist, got>>

\* graph.execute_session(&mut session) is called on a session at some task
LoopCall ==
    \E task_name \in TaskIds :
        /\ pc \in {"idle", "done"}
        /\ session' = Session_new_from_task("s1", task_name, CallerContext)
        /\ runs' = <<>>
        /\ outcome' = Null
        /\ pc' = "exec"
        /\ LoopFrame

\* one level of execute_session: the task runs, and the match on its action
\* returns or calls execute_session again
LoopStep ==
    /\ pc = "exec"
    /\ LET task_id == session.current_task_id
           b == [action |-> IF task_id \in Tasks THEN hist[task_id]
                            ELSE NextAction("End", ""),
                 write |-> Absent, responds |-> FALSE, status |-> FALSE,
                 fails |-> FALSE]
           single == execute_single_task(graph, task_id, ctx, b)
           step == IF single.ok
                   THEN MatchNextAction(graph, session, single.ctx, single.result)
                   ELSE Raises(session, single.error)
       IN  /\ session' = step.session
           /\ runs' = IF task_id \in graph.tasks /\ Len(runs) <= MaxChain
                      THEN Append(runs, task_id)
                      ELSE runs
           /\ IF step.kind = "Recurse"
              THEN pc' = "exec" /\ outcome' = outcome
              ELSE /\ pc' = "done"
                   /\ outcome' = [ok |-> step.kind = "Ok", result |-> step.result,
                                  error |-> step.error]
    /\ LoopFrame

NextLoop ==
    \/ LoopCall
    \/ LoopStep

\* execute_session is an async function that the caller awaits: a call that
\* can run its next level runs it
SpecLoop == InitLoop /\ [][NextLoop]_vars /\ WF_vars(LoopStep)

\* the task that a call at task_id runs next in the same call: the target of
\* the first matching edge when task_id returns ContinueAndExecute
Follower(task_id) ==
    IF task_id \in graph.tasks /\ hist[task_id].kind = "ContinueAndExecute"
    THEN find_next_task(graph.edges, task_id, ctx)
    ELSE Absent

\* where a call at task_id is after n levels, Absent when it has returned
RECURSIVE After(_, _)
After(task_id, n) ==
    IF n = 0 \/ task_id = Absent THEN task_id ELSE After(Follower(task_id), n - 1)

\* a call at task_id reaches a cycle of matching edges whose tasks all
\* return ContinueAndExecute: it is still running after more levels than
\* there are tasks
RunsIntoCycle(task_id) == After(task_id, Cardinality(Tasks) + 1) # Absent

\* C34: execute_session terminates after finitely many task runs when every
\* task run terminates and every cycle of matching edges has a task that
\* returns another action than ContinueAndExecute; the engine bounds no
\* chain, and a call that enters a cycle of tasks that all return
\* ContinueAndExecute runs forever.
C34_TerminatesUnlessCycle ==
    /\ [](Len(runs) <= Cardinality(Tasks) \/ RunsIntoCycle(runs[1]))
    /\ [](( pc = "exec" /\ ~RunsIntoCycle(session.current_task_id))
            => <>(pc = "done"))
    /\ [](( pc = "exec" /\ RunsIntoCycle(session.current_task_id))
            => [](pc = "exec"))

\* a call is past its third level on the cycle A -> B -> A of two tasks that
\* both return ContinueAndExecute, and is about to run B again
C34_Witness ==
    /\ pc = "exec"
    /\ Len(runs) > MaxChain
    /\ runs[1] = "A"
    /\ runs[2] = "B"
    /\ runs[3] = "A"
    /\ session.current_task_id = "B"
    /\ RunsIntoCycle("B")
    /\ hist["A"].kind = "ContinueAndExecute"
    /\ hist["B"].kind = "ContinueAndExecute"

====
